---- MODULE Spec2Model ----
(***************************************************************************)
(* Quiz-Project: the question-generation run (generate_quiz.main ->        *)
(* Quiz.run -> Providers.ollama_questions -> LLMClient.run_ollama), the    *)
(* theme pool (RAG._fetch_unique_tags) and Quiz.validate.                  *)
(*                                                                         *)
(* A Python str is a sequence of one-character strings; an Optional[str]   *)
(* is a sequence of at most one str (<<>> is None, <<s>> is the str s).    *)
(***************************************************************************)
EXTENDS Integers, Sequences, FiniteSets, TLC

\* ------------------------------------------------------------------ bounds
MaxCount == 2
MaxRetries == 2
MaxLlmRetries == 1
MaxRows == 4
MaxTransportRetries == 3
MaxTextLen == 5
MaxSaves == 2
MaxWrap == 3
MaxBatch == 2
MaxHistory == 3
MaxWindow == 2

\* ------------------------------------------------------- program constants
RetryDelayDefault == 1
PrefixLen == 5
OptionCount == 4
KeepLast == 100
RagKDefault == 5
SnippetLen == 1000

\* ----------------------------------------------------------------- strings
None == <<>>
Some(s) == <<s>>

IsSpace(c) == c \in {" ", "\n", "\t"}

RECURSIVE LStrip(_)
LStrip(s) == IF s # <<>> /\ IsSpace(Head(s)) THEN LStrip(Tail(s)) ELSE s

RECURSIVE RStrip(_)
RStrip(s) ==
    IF s # <<>> /\ IsSpace(s[Len(s)]) THEN RStrip(SubSeq(s, 1, Len(s) - 1)) ELSE s

Strip(s) == RStrip(LStrip(s))

LowerChar(c) ==
    CASE c = "A" -> "a" [] c = "B" -> "b" [] c = "C" -> "c" [] c = "D" -> "d"
      [] c = "P" -> "p" [] c = "E" -> "e" [] c = "F" -> "f" [] c = "L" -> "l"
      [] c = "R" -> "r" [] c = "S" -> "s" [] c = "T" -> "t" [] c = "U" -> "u"
      [] OTHER -> c

UpperChar(c) ==
    CASE c = "a" -> "A" [] c = "b" -> "B" [] c = "c" -> "C" [] c = "d" -> "D"
      [] c = "p" -> "P" [] c = "e" -> "E" [] c = "f" -> "F" [] c = "l" -> "L"
      [] c = "r" -> "R" [] c = "s" -> "S" [] c = "t" -> "T" [] c = "u" -> "U"
      [] OTHER -> c

Lower(s) == [i \in 1..Len(s) |-> LowerChar(s[i])]
Upper(s) == [i \in 1..Len(s) |-> UpperChar(s[i])]

Take(s, n) == SubSeq(s, 1, IF Len(s) < n THEN Len(s) ELSE n)

StartsWith(s, p) == Len(p) <= Len(s) /\ SubSeq(s, 1, Len(p)) = p

Range(f) == {f[i] : i \in DOMAIN f}

IsInjective(f) == \A i, j \in DOMAIN f : f[i] = f[j] => i = j

\* random.shuffle(rows): every ordering of the rows
Shuffles(S) == {f \in [1..Cardinality(S) -> S] : IsInjective(f)}

Max(a, b) == IF a > b THEN a ELSE b

RECURSIVE Pow2(_)
Pow2(n) == IF n <= 0 THEN 1 ELSE 2 * Pow2(n - 1)

\* -------------------------------------------------------------- JSON array
\* json.loads(t) for a theme label t that starts with '[' and ends with ']',
\* on the alphabet of the tag values below (letters, space, quote, comma,
\* brackets): the first element of a non-empty array of string literals, as
\* Some(element); None when the text is no such array (json.loads raises, or
\* the array is empty).
IndexOfQuote(s) ==
    IF \E i \in 1..Len(s) : s[i] = "\""
    THEN CHOOSE i \in 1..Len(s) : s[i] = "\"" /\ \A j \in 1..(i - 1) : s[j] # "\""
    ELSE 0

RECURSIVE IsStrElems(_)
IsStrElems(s) ==
    /\ Len(s) >= 2
    /\ Head(s) = "\""
    /\ LET q == IndexOfQuote(Tail(s))
       IN /\ q > 0
          /\ LET rest == SubSeq(s, q + 2, Len(s))
             IN \/ rest = <<>>
                \/ Head(rest) = "," /\ IsStrElems(Tail(rest))

JsonArrayFirst(t) ==
    LET inner == SubSeq(t, 2, Len(t) - 1)
    IN IF IsStrElems(inner)
       THEN Some(SubSeq(inner, 2, IndexOfQuote(Tail(inner))))
       ELSE None

\* ------------------------------------------------------------- theme pool
\* rag.py:70-75 -- strip every value, skip empty ones and ones already seen
\* variant of OrderedTags that skips blank values only and keeps repeated labels
RECURSIVE OrderedTagsNoSeen(_, _)
OrderedTagsNoSeen(rows, ordered) ==
    IF rows = <<>> THEN ordered
    ELSE LET val == Head(rows)
             s == Strip(IF val = None THEN <<>> ELSE val[1])
         IN IF s = <<>>
            THEN OrderedTagsNoSeen(Tail(rows), ordered)
            ELSE OrderedTagsNoSeen(Tail(rows), Append(ordered, s))

RECURSIVE OrderedTags(_, _)
OrderedTags(rows, ordered) ==
    IF rows = <<>> THEN ordered
    ELSE LET val == Head(rows)
             s == Strip(IF val = None THEN <<>> ELSE val[1])
         IN IF s = <<>> \/ s \in Range(ordered)
            THEN OrderedTags(Tail(rows), ordered)
            ELSE OrderedTags(Tail(rows), Append(ordered, s))

\* variant of DesiredTags that keeps one label more
DesiredTagsPlusOne(max_retries) == Max(1, max_retries + 2)

\* rag.py:77-81 -- desired = max(1, max_retries + 1)
DesiredTags(max_retries) == Max(1, max_retries + 1)

\* rag.py:68-82 -- the labels kept from one shuffled row list
TruncatedTags(rows, max_retries) ==
    Take(OrderedTags(rows, <<>>), DesiredTags(max_retries))

\* rag.py:58-85 -- every list one call may return: [] when the metadata
\* cannot be read (the except branch), else one list per shuffle
FetchUniqueTags(db, max_retries) ==
    IF ~db.readable THEN {<<>>}
    ELSE {TruncatedTags(f, max_retries) : f \in Shuffles(db.rows)}

\* quiz_core.py:86-90 -- the include_tags filter (an empty set is "not given")
TagPool(tags_, include_tags) ==
    IF include_tags # {}
    THEN LET req_lower == {Lower(Strip(t)) : t \in include_tags}
         IN SelectSeq(tags_, LAMBDA t : Lower(Strip(t)) \in req_lower)
    ELSE tags_

\* providers.py:71-90 -- safe_theme: the scalar form of the theme argument
SafeTheme(theme_) ==
    IF theme_ = None THEN None
    ELSE LET t == Strip(theme_[1])
         IN IF t # <<>> /\ Head(t) = "[" /\ t[Len(t)] = "]" /\ JsonArrayFirst(t) # None
            THEN JsonArrayFirst(t)
            ELSE Some(t)

\* variant of NextThemeIndex that ignores the attempt number
NextThemeIndexFixed(theme_index, attempt_, themes_) ==
    (theme_index + 1) % Len(themes_)

\* providers.py:144 -- the index of the theme a retry moves to
NextThemeIndex(theme_index, attempt_, themes_) ==
    (theme_index + attempt_) % Len(themes_)

\* --------------------------------------------------------- output parser
\* variant of IsLetterAD that knows capital letters only
IsLetterADUpper(c) == c \in {"A", "B", "C", "D"}

IsLetterAD(c) == c \in {"A", "B", "C", "D", "a", "b", "c", "d"}
IsLabelPunct(c) == c \in {")", ".", ":", "-"}

\* utils.py:154-163 -- drop a leading "A)", "b.", "C :", "d -" label
CleanOptionText(s) ==
    LET s0 == Strip(s)
    IN IF s0 # <<>> /\ IsLetterAD(Head(s0))
       THEN LET rest == LStrip(Tail(s0))
            IN IF rest # <<>> /\ IsLabelPunct(Head(rest))
               THEN Strip(Tail(rest))
               ELSE s0
       ELSE s0

\* utils.py:167-172,176-180 -- each text cleaned, the trimmed original kept
\* when cleaning leaves nothing
CleanedList(texts) ==
    [i \in 1..Len(texts) |->
        LET cleaned == CleanOptionText(texts[i])
        IN IF cleaned # <<>> THEN cleaned ELSE Strip(texts[i])]

\* the options value of an item: a list of strings (vals: the strings), a
\* dict (vals: what .get gives for "A".."D", None for a missing key or a
\* value that is no string), or anything else
ListOptions(texts) == [kind |-> "list", vals |-> texts]
DictOptions(values) == [kind |-> "dict", vals |-> values]
OtherOptions == [kind |-> "other", vals |-> <<>>]

\* utils.py:164-181 -- format_options: the option texts of an item, None for
\* the RuntimeError.  A list of strings is taken at any length and with any
\* entries; a dict needs non-blank strings under A, B, C and D.
FormatOptions(options) ==
    IF options.kind = "list" THEN Some(CleanedList(options.vals))
    ELSE IF /\ options.kind = "dict"
            /\ \A i \in 1..Len(options.vals) :
                   options.vals[i] # None /\ Strip(options.vals[i][1]) # <<>>
         THEN Some(CleanedList([i \in 1..Len(options.vals) |-> options.vals[i][1]]))
    ELSE None

\* the first index whose option equals norm, case-insensitively; 0 when none
MatchIndex(norm, options) ==
    IF \E i \in 1..Len(options) : norm = Lower(Strip(options[i]))
    THEN CHOOSE i \in 1..Len(options) :
            /\ norm = Lower(Strip(options[i]))
            /\ \A j \in 1..(i - 1) : norm # Lower(Strip(options[j]))
    ELSE 0

\* utils.py:217 -- [A-Da-d] or [A-Da-d]\s*[).:-]? as a full match
IsLetterAnswer(letter) ==
    /\ letter # <<>>
    /\ IsLetterAD(Head(letter))
    /\ LET rest == LStrip(Tail(letter))
       IN rest = <<>> \/ (Len(rest) = 1 /\ IsLabelPunct(rest[1]))

\* ord(letter[0].upper()) - ord('A'), counted from 1
LetterIndex(c) ==
    CASE UpperChar(c) = "A" -> 1 [] UpperChar(c) = "B" -> 2
      [] UpperChar(c) = "C" -> 3 [] OTHER -> 4

\* variant of ReconcileAnswer that maps a letter to its position first
ReconcileAnswerLetterFirst(answer, options) ==
    LET answer_raw == Strip(answer)
        norm == Lower(answer_raw)
        cleaned_ans == CleanOptionText(answer_raw)
        first == MatchIndex(norm, options)
        second == IF cleaned_ans # <<>> /\ Lower(cleaned_ans) # norm
                  THEN MatchIndex(Lower(Strip(cleaned_ans)), options)
                  ELSE 0
    IN IF answer_raw = <<>> THEN None
       ELSE IF IsLetterAnswer(answer_raw) /\ LetterIndex(Head(answer_raw)) <= Len(options)
            THEN Some(options[LetterIndex(Head(answer_raw))])
       ELSE IF first # 0 THEN Some(answer_raw)
       ELSE IF second # 0 THEN Some(options[second])
       ELSE None

\* utils.py:192-224 -- the answer text stored for an item, None when the
\* answer cannot be reconciled with the options
ReconcileAnswer(answer, options) ==
    LET answer_raw == Strip(answer)
        norm == Lower(answer_raw)
        cleaned_ans == CleanOptionText(answer_raw)
        first == MatchIndex(norm, options)
        second == IF cleaned_ans # <<>> /\ Lower(cleaned_ans) # norm
                  THEN MatchIndex(Lower(Strip(cleaned_ans)), options)
                  ELSE 0
    IN IF answer_raw = <<>> THEN None
       ELSE IF first # 0 THEN Some(answer_raw)
       ELSE IF second # 0 THEN Some(options[second])
       ELSE IF IsLetterAnswer(answer_raw) /\ LetterIndex(Head(answer_raw)) <= Len(options)
            THEN Some(options[LetterIndex(Head(answer_raw))])
       ELSE None

PlaceholderQuestion == <<"P", "?">>

\* utils.py:182-238 -- one item of the decoded JSON as a Question
ParseItem(obj, n) ==
    LET formatted == FormatOptions(obj.options)
        options == IF formatted = None THEN <<>> ELSE formatted[1]
        question == IF Strip(obj.question) # <<>> THEN Strip(obj.question)
                    ELSE PlaceholderQuestion
    IN [id |-> IF "id" \in DOMAIN obj THEN obj.id ELSE n,
        question |-> question, options |-> options,
        answer |-> IF formatted = None THEN None
                   ELSE ReconcileAnswer(obj.answer, options)]

\* utils.py:100-151 -- the items the parser decodes.  Text outside a fence is
\* cut to its first balanced object before any array is looked for, so of a
\* list of objects that is not fenced only the first object is decoded.
DecodedItems(raw) ==
    IF raw.kind = "list" /\ ~raw.fenced /\ raw.items # <<>>
    THEN <<raw.items[1]>>
    ELSE raw.items

\* utils.py:71-245 -- the decoded model output as Questions; ok is FALSE when
\* the parser raises (no JSON, options that cannot be formatted, an answer
\* that matches no option, no item)
ParseModelQuestions(raw) ==
    LET items == DecodedItems(raw)
        parsed == [i \in 1..Len(items) |-> ParseItem(items[i], i)]
        bad == raw.kind = "text" \/ parsed = <<>>
               \/ \E i \in 1..Len(parsed) : parsed[i].answer = None
    IN IF bad THEN [ok |-> FALSE, questions |-> <<>>]
       ELSE [ok |-> TRUE,
             questions |-> [i \in 1..Len(parsed) |->
                               [parsed[i] EXCEPT !.answer = parsed[i].answer[1]]]]

\* ---------------------------------------------------------- Quiz.validate
LetterOf(i) ==
    CASE i = 1 -> <<"A">> [] i = 2 -> <<"B">> [] i = 3 -> <<"C">>
      [] i = 4 -> <<"D">> [] OTHER -> <<"E">>

\* quiz_core.py:43 -- the option test of the answer normalisation
AnswerMatchesOption(lower, opt) ==
    lower = Lower(opt) \/ StartsWith(Lower(opt), Take(lower, PrefixLen))

\* quiz_core.py:40-45 -- an answer that is no letter becomes the letter of
\* the first option it matches
NormalizeAnswer(q) ==
    IF Upper(q.answer) \in {<<"A">>, <<"B">>, <<"C">>, <<"D">>} THEN q
    ELSE LET lower == Lower(Strip(q.answer))
             hits == {i \in 1..Len(q.options) : AnswerMatchesOption(lower, q.options[i])}
         IN IF hits = {} THEN q
            ELSE [q EXCEPT !.answer = LetterOf(CHOOSE i \in hits : \A j \in hits : i <= j)]

\* quiz_core.py:39-48 -- the loop over the questions, from question i on
RECURSIVE ValidateFrom(_, _)
ValidateFrom(qs, i) ==
    IF i > Len(qs) THEN [err |-> FALSE, questions |-> qs]
    ELSE LET qs1 == [qs EXCEPT ![i] = NormalizeAnswer(qs[i])]
         IN IF Len(qs1[i].options) # OptionCount
            THEN [err |-> TRUE, questions |-> qs1]
            ELSE ValidateFrom(qs1, i + 1)

\* quiz_core.py:35-48
Validate(qs, expected) ==
    IF Len(qs) # expected THEN [err |-> TRUE, questions |-> qs]
    ELSE ValidateFrom(qs, 1)

\* ------------------------------------------------------------- transport
\* variant of BackoffDelay that grows linearly
BackoffDelayLinear(retry_delay, attempt_) ==
    (IF retry_delay = 0 THEN 1 ELSE retry_delay) * (attempt_ + 1)

\* llm_client.py:180 -- the wait after failed request number attempt_
BackoffDelay(retry_delay, attempt_) ==
    (IF retry_delay = 0 THEN 1 ELSE retry_delay) * Pow2(attempt_)

\* llm_client.py:169 -- range((payload.retries or 0) + 1)
RequestBudget(retries) == retries + 1

\* ------------------------------------------------------------------ inputs
\* string_value rows of embedding_metadata: NULL, padded, blank and
\* array-encoded values beside plain labels
TagValues ==
    { Some(<<"a">>), Some(<<" ", "a", " ">>), Some(<<"b">>), Some(<<"c">>),
      Some(<<" ">>), None, Some(<<"[", "\"", "c", "\"", "]">>) }

\* the stores of the tag-listing specification: up to MaxRows rows
TagStores == {S \in SUBSET TagValues : Cardinality(S) <= MaxRows}

\* the stores of a generation run
RunStores ==
    { {Some(<<"a">>), Some(<<"b">>), Some(<<"c">>)},
      {Some(<<"a">>), Some(<<" ", "a", " ">>), None, Some(<<"[", "\"", "c", "\"", "]">>)} }

\* --include-tags: not given, or two labels in another case and padding
IncludeTagChoices == { {}, {<<"A">>, <<" ", "b">>} }

QText == <<"q">>
Opts4 == << <<"1", "0">>, <<"2", "0">>, <<"3", "0">>, <<"4", "0">> >>
Opts4Labelled ==
    << <<"A", ")", " ", "1", "0">>, <<"B", ")", " ", "2", "0">>,
       <<"C", ")", " ", "3", "0">>, <<"D", ")", " ", "4", "0">> >>
Opts3 == << <<"1", "0">>, <<"2", "0">>, <<"3", "0">> >>

GoodItem == [question |-> QText, options |-> ListOptions(Opts4), answer |-> <<"3", "0">>]
LetterItem ==
    [question |-> QText, options |-> ListOptions(Opts4Labelled), answer |-> <<"C">>]
ThreeItem == [question |-> QText, options |-> ListOptions(Opts3), answer |-> <<"1", "0">>]
NoMatchItem ==
    [question |-> QText, options |-> ListOptions(Opts4), answer |-> <<"5", "0">>]

\* what the model may answer: text without JSON, one object, or a fenced list
ModelOutputs ==
    { [kind |-> "text", fenced |-> FALSE, items |-> <<>>],
      [kind |-> "object", fenced |-> FALSE, items |-> <<LetterItem>>],
      [kind |-> "object", fenced |-> FALSE, items |-> <<ThreeItem>>],
      [kind |-> "object", fenced |-> FALSE, items |-> <<NoMatchItem>>],
      [kind |-> "list", fenced |-> TRUE, items |-> <<GoodItem, ThreeItem>>] }

\* ------------------------------------------------------------------- state
VARIABLES
    cfg,            \* Config: count, max_retries, llm_retries, no_rag, include_tags
    env,            \* the tag store (readable, rows) and whether the Chroma store opens
    pc,             \* position in generate_quiz.main
    exit_status,    \* Some(status) once main has returned
    raised,         \* the error that ended the run, "" when none
    document_store, \* RAG._document_store is set
    idx,            \* Quiz.run: the loop index
    tags,           \* Quiz.run: tags of the current question
    themes,         \* the themes argument (tag_pool; <<>> also stands for None)
    theme,          \* the theme argument (attempt 0), None when there is none
    questions,      \* Quiz.run: questions / main: questions
    attempt,        \* ollama_questions: attempt
    variables_base, \* ollama_questions: variables_base (theme, corpus)
    prompt,         \* variables of the payload in flight (theme, corpus)
    json_text,      \* the output awaiting parse, None when there is none
    req_attempt,    \* run_ollama: the for-loop index
    requests,       \* history: requests sent by the latest run_ollama call
    slept,          \* history: the waits of the latest run_ollama call
    last_resp,      \* history: outcome of the latest request: "none", "ok", "fail"
    themes_used,    \* history: the theme of each attempt of the latest question
    gen_calls,      \* history: run_ollama calls of the latest question
    parses,         \* history: parse attempts of the latest question
    parse_failures, \* history: parse failures of the run
    quiz_file,      \* the question list file: None, or Some(its entries)
    answers_file,   \* the answer key file: None, or Some(its entries)
    history_file,   \* the entries of the history file
    torn,           \* the files left holding only part of the text written last
    call,           \* the arguments of a function checked on its own
    result,         \* what that function returned or raised
    trace           \* what that function did on the way, in order

progVars ==
    <<document_store, idx, tags, themes, theme, questions, attempt, variables_base,
      prompt, json_text, req_attempt>>
reqHist == <<requests, slept, last_resp>>
qHist == <<themes_used, gen_calls, parses>>
runHist == <<parse_failures>>

files == <<quiz_file, answers_file, history_file, torn>>
callVars == <<call, result, trace>>

vars ==
    <<cfg, env, pc, exit_status, raised, progVars, reqHist, qHist, runHist, files,
      callVars>>

Configs ==
    [count : 0..MaxCount, max_retries : (-1)..MaxRetries,
     llm_retries : (-1)..MaxLlmRetries, no_rag : BOOLEAN,
     include_tags : IncludeTagChoices]

NoVariables == [theme |-> None, corpus |-> None]

\* no function is being checked on its own
NoCall ==
    /\ call = <<>>
    /\ result = <<>>
    /\ trace = <<>>

\* no output file exists yet
NoFiles ==
    /\ quiz_file = None
    /\ answers_file = None
    /\ history_file = <<>>
    /\ torn = {}

\* the program's own variables before main has done anything
InitProg ==
    /\ exit_status = None
    /\ raised = ""
    /\ document_store = FALSE
    /\ idx = 0
    /\ tags = <<>>
    /\ themes = <<>>
    /\ theme = None
    /\ questions = <<>>
    /\ attempt = 0
    /\ variables_base = NoVariables
    /\ prompt = NoVariables
    /\ json_text = None
    /\ req_attempt = 0
    /\ requests = 0
    /\ slept = <<>>
    /\ last_resp = "none"
    /\ themes_used = <<>>
    /\ gen_calls = 0
    /\ parses = 0
    /\ parse_failures = 0

InitRest ==
    /\ InitProg
    /\ NoFiles
    /\ NoCall

\* the environments of a run.  A store that cannot be read shows no rows, and
\* with --no-rag the Chroma store is never opened (rag.py:196-197), so these
\* two cases are listed once.
Envs ==
    {e \in [readable : BOOLEAN, rows : RunStores \cup {{}}, store_present : BOOLEAN] :
        e.readable <=> e.rows # {}}

\* a generation run about to start
Init ==
    /\ cfg \in Configs
    /\ env \in Envs
    /\ cfg.no_rag => ~env.store_present
    /\ pc = "main"
    /\ InitRest

\* ----------------------------------------------------------------- actions
\* rag.py:87-134 -- get_blocks_for_tag: None without a store, when nothing
\* matches or when retrieval fails; else the context built for the tag
GetBlocksForTag(store, tag) == IF store THEN {None, Some(tag)} ELSE {None}

\* config.py:9-48 -- the fields a Config object has
ConfigFields ==
    {"count", "quiz", "answers", "avoid_recent_window", "dry_run", "no_rag",
     "include_tags", "max_retries", "llm_retries"}

\* the frame of ollama_questions is gone
EndCall ==
    /\ attempt' = 0
    /\ variables_base' = NoVariables
    /\ prompt' = NoVariables
    /\ json_text' = None
    /\ req_attempt' = 0

\* the frame of Quiz.run is gone
EndRun ==
    /\ idx' = 0
    /\ tags' = <<>>
    /\ themes' = <<>>
    /\ theme' = None

\* main returns status: nothing of the process is left
Exit(status, error) ==
    /\ pc' = "exit"
    /\ exit_status' = Some(status)
    /\ raised' = error
    /\ EndCall
    /\ EndRun
    /\ questions' = <<>>
    /\ document_store' = FALSE

\* a new run_ollama call: the for loop starts at request 0
BeginRunOllama ==
    /\ pc' = "post"
    /\ req_attempt' = 0
    /\ requests' = 0
    /\ slept' = <<>>
    /\ last_resp' = "none"
    /\ json_text' = None

\* generate_quiz.py:32-36, quiz_core.py:71-77 -- Quiz.run up to its loop
MainStart ==
    /\ pc = "main"
    /\ IF cfg.count < 1
       THEN Exit(1, "RuntimeError")
       ELSE /\ document_store' = (~cfg.no_rag /\ env.store_present)
            /\ pc' = "loop"
            /\ UNCHANGED <<exit_status, raised, idx, tags, themes, theme, questions,
                           attempt, variables_base, prompt, json_text, req_attempt>>
    /\ UNCHANGED <<callVars, files, cfg, env, reqHist, qHist, runHist>>

\* quiz_core.py:78-100, providers.py:45-120 -- one loop iteration up to the
\* first run_ollama call: tags fetched and shuffled again, theme 0 chosen
PrepareQuestion ==
    /\ pc = "loop"
    /\ idx < cfg.count
    /\ \E t \in FetchUniqueTags(env, cfg.max_retries) :
         LET pool == IF t # <<>> THEN TagPool(t, cfg.include_tags) ELSE <<>>
             q_theme == IF pool # <<>> THEN Some(pool[1]) ELSE None
         IN \E maybe \in (IF q_theme # None
                          THEN GetBlocksForTag(document_store, q_theme[1])
                          ELSE {None}) :
              /\ tags' = t
              /\ themes' = pool
              /\ theme' = q_theme
              /\ variables_base' = [theme |-> SafeTheme(q_theme), corpus |-> maybe]
              /\ prompt' = variables_base'
              /\ themes_used' = <<q_theme>>
    /\ attempt' = 0
    /\ gen_calls' = 1
    /\ parses' = 0
    /\ BeginRunOllama
    /\ UNCHANGED <<callVars, files, cfg, env, exit_status, raised, document_store, idx, questions,
                   runHist>>

\* llm_client.py:169-176 -- a request that is answered with 200 and JSON
PostOk ==
    /\ pc = "post"
    /\ req_attempt < RequestBudget(cfg.llm_retries)
    /\ \E out \in ModelOutputs : json_text' = Some(out)
    /\ requests' = requests + 1
    /\ last_resp' = "ok"
    /\ pc' = "parse"
    /\ UNCHANGED <<callVars, files, cfg, env, exit_status, raised, document_store, idx, tags, themes,
                   theme, questions, attempt, variables_base, prompt, req_attempt,
                   slept, qHist, runHist>>

\* variant of PostFail that hands the last failure to the parser as an empty answer
PostFailSwallowed ==
    /\ pc = "post"
    /\ req_attempt < RequestBudget(cfg.llm_retries)
    /\ requests' = requests + 1
    /\ last_resp' = "fail"
    /\ IF req_attempt < cfg.llm_retries
       THEN /\ slept' = Append(slept, BackoffDelay(RetryDelayDefault, req_attempt))
            /\ req_attempt' = req_attempt + 1
            /\ UNCHANGED <<pc, json_text>>
       ELSE /\ pc' = "parse"
            /\ json_text' = Some([kind |-> "text", fenced |-> FALSE, items |-> <<>>])
            /\ UNCHANGED <<slept, req_attempt>>
    /\ UNCHANGED <<callVars, files, cfg, env, exit_status, raised, document_store, idx, tags,
                   themes, theme, questions, attempt, variables_base, prompt,
                   qHist, runHist>>

\* llm_client.py:177-183 -- a request that fails: wait and go on, or raise
PostFail ==
    /\ pc = "post"
    /\ req_attempt < RequestBudget(cfg.llm_retries)
    /\ requests' = requests + 1
    /\ last_resp' = "fail"
    /\ IF req_attempt < cfg.llm_retries
       THEN /\ slept' = Append(slept, BackoffDelay(RetryDelayDefault, req_attempt))
            /\ req_attempt' = req_attempt + 1
            /\ UNCHANGED <<pc, exit_status, raised, document_store, idx, tags, themes,
                           theme, questions, attempt, variables_base, prompt,
                           json_text>>
       ELSE /\ Exit(1, "TransportError")
            /\ UNCHANGED slept
    /\ UNCHANGED <<callVars, files, cfg, env, qHist, runHist>>

\* llm_client.py:169,184 -- an empty range: no request, data is unbound
PostNone ==
    /\ pc = "post"
    /\ RequestBudget(cfg.llm_retries) <= 0
    /\ Exit(1, "UnboundLocalError")
    /\ UNCHANGED <<callVars, files, cfg, env, reqHist, qHist, runHist>>

\* providers.py:121-123, quiz_core.py:101 -- the while loop is not entered: the
\* function ends without a return, Quiz.run skips the question
LoopFallThrough ==
    /\ pc = "parse"
    /\ ~(attempt <= cfg.max_retries)
    /\ idx' = idx + 1
    /\ pc' = "loop"
    /\ EndCall
    /\ UNCHANGED <<callVars, files, cfg, env, exit_status, raised, document_store, tags, themes, theme,
                   questions, reqHist, qHist, runHist>>

\* providers.py:124-128, quiz_core.py:101-104 -- the output parses
ParseAccept ==
    /\ pc = "parse"
    /\ attempt <= cfg.max_retries
    /\ LET r == ParseModelQuestions(json_text[1])
       IN /\ r.ok
          /\ questions' = Append(questions, [r.questions[1] EXCEPT !.id = idx + 1])
    /\ parses' = parses + 1
    /\ idx' = idx + 1
    /\ pc' = "loop"
    /\ EndCall
    /\ UNCHANGED <<callVars, files, cfg, env, exit_status, raised, document_store, tags, themes, theme,
                   reqHist, themes_used, gen_calls, runHist>>

\* variant of RetryThemes that reads the store again
RetryThemesRefetched ==
    {TagPool(t, cfg.include_tags) : t \in FetchUniqueTags(env, cfg.max_retries)}

\* providers.py:141-146 -- the themes a retry indexes: the list it was given
\* ("do not refetch")
RetryThemes == {themes}

\* variant of RetryCorpus that keeps the corpus of the attempt before
RetryCorpusCarried(new_files, base, previous) ==
    IF new_files # None THEN new_files ELSE previous

\* providers.py:133-134,151-165 -- the corpus of a retry: variables_retry
\* starts as a copy of variables_base and gets a corpus of its own only from
\* new_files
RetryCorpus(new_files, base, previous) ==
    IF new_files # None THEN new_files ELSE base

\* providers.py:129-178 -- a parse failure with a retry left: the next theme
\* of the themes list, its context when it has one, and a new run_ollama call
ParseRetry ==
    /\ pc = "parse"
    /\ attempt <= cfg.max_retries
    /\ ~ParseModelQuestions(json_text[1]).ok
    /\ attempt + 1 <= cfg.max_retries
    /\ attempt' = attempt + 1
    /\ parses' = parses + 1
    /\ parse_failures' = parse_failures + 1
    /\ \E ths \in RetryThemes :
         LET new_theme == IF ths # <<>> /\ document_store
                          THEN Some(ths[NextThemeIndex(0, attempt', ths) + 1])
                          ELSE None
         IN \E new_files \in (IF new_theme # None
                              THEN GetBlocksForTag(document_store, new_theme[1])
                              ELSE {None}) :
              /\ themes' = ths
              /\ prompt' = [theme |-> IF new_theme # None /\ new_theme[1] # <<>>
                                      THEN new_theme ELSE variables_base.theme,
                            corpus |-> RetryCorpus(new_files, variables_base.corpus,
                                                   prompt.corpus)]
              /\ themes_used' = Append(themes_used,
                                       IF new_theme # None THEN new_theme ELSE theme)
    /\ gen_calls' = gen_calls + 1
    /\ BeginRunOllama
    /\ UNCHANGED <<callVars, files, cfg, env, exit_status, raised, document_store, idx, tags,
                   theme, questions, variables_base>>

\* providers.py:129-132,179-180 -- a parse failure with no retry left
ParseExhausted ==
    /\ pc = "parse"
    /\ attempt <= cfg.max_retries
    /\ ~ParseModelQuestions(json_text[1]).ok
    /\ ~(attempt + 1 <= cfg.max_retries)
    /\ parses' = parses + 1
    /\ parse_failures' = parse_failures + 1
    /\ Exit(1, "ParseError")
    /\ UNCHANGED <<callVars, files, cfg, env, reqHist, themes_used, gen_calls>>

\* quiz_core.py:78,105 -- the loop is over: Quiz.run returns its questions
RunReturn ==
    /\ pc = "loop"
    /\ ~(idx < cfg.count)
    /\ pc' = "validate"
    /\ EndRun
    /\ UNCHANGED <<callVars, files, cfg, env, exit_status, raised, document_store, questions, attempt,
                   variables_base, prompt, json_text, req_attempt, reqHist, qHist,
                   runHist>>

\* generate_quiz.py:37-40 -- quiz.validate(questions, cfg.count)
MainValidate ==
    /\ pc = "validate"
    /\ LET v == Validate(questions, cfg.count)
       IN IF v.err
          THEN Exit(1, "ValidationFailed")
          ELSE /\ questions' = v.questions
               /\ pc' = "emit"
               /\ UNCHANGED <<exit_status, raised, document_store, idx, tags, themes,
                              theme, attempt, variables_base, prompt, json_text,
                              req_attempt>>
    /\ UNCHANGED <<callVars, files, cfg, env, reqHist, qHist, runHist>>

\* generate_quiz.py:41,63-65 -- cfg.emit_stdout is read: Config has no such
\* field, the AttributeError is caught by main's handler
MainEmit ==
    /\ pc = "emit"
    /\ IF "emit_stdout" \in ConfigFields
       THEN /\ pc' = "write"
            /\ UNCHANGED <<exit_status, raised, progVars>>
       ELSE Exit(1, "AttributeError")
    /\ UNCHANGED <<callVars, files, cfg, env, reqHist, qHist, runHist>>

\* generate_quiz.py:60-62 -- the user interrupts the run
Interrupt ==
    /\ pc \in {"loop", "post", "parse", "validate", "emit"}
    /\ Exit(130, "KeyboardInterrupt")
    /\ UNCHANGED <<callVars, files, cfg, env, reqHist, qHist, runHist>>

Next ==
    \/ MainStart
    \/ PrepareQuestion
    \/ PostOk
    \/ PostFail
    \/ PostNone
    \/ LoopFallThrough
    \/ ParseAccept
    \/ ParseRetry
    \/ ParseExhausted
    \/ RunReturn
    \/ MainValidate
    \/ MainEmit
    \/ Interrupt

Spec == Init /\ [][Next]_vars

\* ------------------------------------------------- the tag listing alone
\* a call of RAG._fetch_unique_tags on any store of up to MaxRows rows,
\* readable or not
TagConfigs ==
    [count : {1}, max_retries : (-1)..MaxRetries, llm_retries : {0},
     no_rag : {FALSE}, include_tags : {{}}]

InitTags ==
    /\ cfg \in TagConfigs
    /\ env \in [readable : BOOLEAN, rows : TagStores, store_present : {FALSE}]
    /\ pc = "tags"
    /\ InitRest

\* rag.py:51-85 -- _fetch_unique_tags(db_path) returns
FetchTagsCall ==
    /\ pc = "tags"
    /\ tags' \in FetchUniqueTags(env, cfg.max_retries)
    /\ pc' = "tags_done"
    /\ UNCHANGED <<callVars, files, cfg, env, exit_status, raised, document_store, idx, themes,
                   theme, questions, attempt, variables_base, prompt, json_text,
                   req_attempt, reqHist, qHist, runHist>>

NextTags == FetchTagsCall

SpecTags == InitTags /\ [][NextTags]_vars

\* --------------------------------------------------- one run_ollama call
\* a call of LLMClient.run_ollama with payload.retries = cfg.llm_retries, made
\* from ollama_questions under any parse-retry budget
TransportConfigs ==
    [count : {1}, max_retries : (-1)..MaxRetries,
     llm_retries : (-1)..MaxTransportRetries, no_rag : {TRUE},
     include_tags : {{}}]

InitTransport ==
    /\ cfg \in TransportConfigs
    /\ env = [readable |-> FALSE, rows |-> {}, store_present |-> FALSE]
    /\ pc = "post"
    /\ InitRest

NextTransport ==
    \/ PostOk
    \/ PostFail
    \/ PostNone

SpecTransport == InitTransport /\ [][NextTransport]_vars

\* ------------------------------------------------ a run of three questions
\* generate_quiz.py with --count 3, parse retries allowed, a readable store and
\* a transport that sends at least one request
E2EConfigs ==
    [count : {3}, max_retries : 1..MaxRetries, llm_retries : 0..MaxLlmRetries,
     no_rag : {FALSE}, include_tags : {{}}]

InitE2E ==
    /\ cfg \in E2EConfigs
    /\ env \in {e \in Envs : e.readable /\ e.store_present}
    /\ pc = "main"
    /\ InitRest

NextE2E ==
    \/ MainStart
    \/ PrepareQuestion
    \/ PostOk
    \/ PostFail
    \/ ParseAccept
    \/ ParseRetry
    \/ ParseExhausted
    \/ RunReturn
    \/ MainValidate
    \/ MainEmit
    \/ Interrupt

SpecE2E == InitE2E /\ [][NextE2E]_vars

\* ================================================================== claims
\* the themes of the attempts made so far are pairwise different
DistinctThemes ==
    \A n, m \in DOMAIN themes_used :
        (n # m /\ themes_used[n] # None) => themes_used[n] # themes_used[m]

\* C1: whenever Quiz.run returns (main is about to validate), the list it
\* returns holds exactly cfg.count questions; a run that cannot produce them
\* raises instead.
C1_ReturnsExactlyCount ==
    pc = "validate" => Len(questions) = cfg.count

\* C2: every question that has passed Quiz.validate in main and is about to be
\* written has exactly four options, and its answer is the text of exactly one
\* of them, compared without case.
C2_AnswerIsOptionText ==
    pc = "emit" =>
        \A i \in DOMAIN questions :
            LET q == questions[i]
            IN /\ Len(q.options) = 4
               /\ Cardinality({j \in DOMAIN q.options :
                       Lower(Strip(q.answer)) = Lower(Strip(q.options[j]))}) = 1

\* C3: a question gets at most max_retries + 1 attempts with one generate call
\* each; it is accepted at its first parse that succeeds, and after
\* max_retries + 1 failed parses the run raises without another generate call.
C3_AttemptBudget ==
    /\ gen_calls <= cfg.max_retries + 1
    /\ parses <= gen_calls
    /\ pc \in {"post", "parse"} => gen_calls = parses + 1
    /\ raised = "ParseError" =>
           (parses = cfg.max_retries + 1 /\ gen_calls = parses)

\* C4: with the retrieval store available and a pool of p themes, attempt n of
\* a question uses pool[(theme_index + n) mod p], theme_index being 0.
C4_ThemeRotation ==
    (pc \in {"post", "parse"} /\ document_store /\ themes # <<>>) =>
        /\ Len(themes_used) = attempt + 1
        /\ \A n \in 0..attempt :
               themes_used[n + 1] = Some(themes[((0 + n) % Len(themes)) + 1])

C4_Witness ==
    /\ pc = "parse"
    /\ document_store
    /\ Len(themes) = 3
    /\ attempt = 2
    /\ themes_used = <<Some(themes[1]), Some(themes[2]), Some(themes[3])>>

\* C5 as written: within one question no theme is used for more than one
\* attempt, whatever the pool and whatever max_retries.
C5_NoThemeReuse ==
    pc \in {"post", "parse"} => DistinctThemes

\* C5 amended: with the retrieval store available, no theme is used twice
\* while the pool has at least max_retries + 1 entries; once the attempts
\* outnumber a shorter pool the rotation wraps and a theme comes back; without
\* the store every retry keeps the theme of attempt 0.
C5_NoReuseWhenPoolLongEnough ==
    pc \in {"post", "parse"} =>
        /\ (document_store /\ Len(themes) >= cfg.max_retries + 1) => DistinctThemes
        /\ (document_store /\ themes # <<>> /\ Len(themes_used) > Len(themes))
               => ~DistinctThemes
        /\ ~document_store => \A n \in DOMAIN themes_used : themes_used[n] = theme

C5_Witness ==
    /\ pc = "post"
    /\ document_store
    /\ cfg.max_retries = 2
    /\ Len(themes) = 3
    /\ Len(themes_used) = 3
    /\ DistinctThemes

\* C6 as written: the pool is computed once per run, so a question after the
\* first starts with the labels, in the order, the question before it had.
C6_PoolFixedForRun ==
    [][(pc = "loop" /\ idx >= 1 /\ pc' = "post") =>
           (tags' = tags /\ themes' = themes)]_vars

\* C6 amended: the pool is fetched and shuffled again for every question, and
\* is read-only within a question: from its first generate call to its last
\* parse no step changes the labels or their order.
C6_PoolFixedWithinQuestion ==
    [][(pc \in {"post", "parse"} /\ pc' \in {"post", "parse"}) =>
           (tags' = tags /\ themes' = themes)]_vars

C6_Witness ==
    /\ pc = "post"
    /\ idx = 1
    /\ attempt = 1
    /\ Len(themes) >= 2
    /\ themes_used = <<Some(themes[1]), Some(themes[2])>>

\* C7: _fetch_unique_tags returns pairwise different, non-empty, trimmed
\* labels, at most max(1, max_retries + 1) of them (three when max_retries is
\* 2), and the empty list when the metadata cannot be read.
C7_FetchUniqueTags ==
    pc = "tags_done" =>
        /\ \A i, j \in DOMAIN tags : i # j => tags[i] # tags[j]
        /\ \A i \in DOMAIN tags : tags[i] # <<>> /\ Strip(tags[i]) = tags[i]
        /\ Len(tags) <= (IF cfg.max_retries + 1 > 1 THEN cfg.max_retries + 1 ELSE 1)
        /\ cfg.max_retries = 2 => Len(tags) <= 3
        /\ ~env.readable => (tags = <<>> /\ raised = "")

C7_Witness ==
    /\ pc = "tags_done"
    /\ cfg.max_retries = 2
    /\ env.readable
    /\ env.rows = {Some(<<"a">>), Some(<<" ", "a", " ">>), Some(<<"b">>),
                   Some(<<"[", "\"", "c", "\"", "]">>)}
    /\ Len(tags) = 3

\* C8: a run with count 3 and max_retries >= 1 in which questions 1 and 2
\* parse at attempt 0 and question 3 fails once and then parses ends with
\* exit status 0, three questions in the quiz file and in the answer key, and
\* three entries appended to the history file.
C8_RunOfThreeExitsZero ==
    (/\ pc = "exit"
     /\ cfg.count = 3
     /\ cfg.max_retries >= 1
     /\ parses = 2
     /\ parse_failures = 1
     /\ raised \notin {"KeyboardInterrupt", "ValidationFailed"}) =>
        /\ exit_status = Some(0)
        /\ quiz_file # None /\ Len(quiz_file[1]) = 3
        /\ answers_file # None /\ Len(answers_file[1]) = 3
        /\ Len(history_file) = 3

\* C9: one run_ollama call sends at most retries + 1 requests and returns at
\* the first that succeeds; failed request k (k < retries) is followed by a
\* wait of retry_delay * 2^k, retry_delay being 1; when request number
\* retries fails the call raises with no further wait or request.
C9_TransportRetries ==
    /\ requests <= cfg.llm_retries + 1
    /\ Len(slept) <= Max(0, cfg.llm_retries)
    /\ \A k \in 0..(Len(slept) - 1) : slept[k + 1] = RetryDelayDefault * (2 ^ k)
    /\ pc = "post" => (requests = Len(slept) /\ last_resp # "ok")
    /\ pc = "parse" => (last_resp = "ok" /\ requests = Len(slept) + 1)
    /\ raised = "TransportError" =>
           /\ last_resp = "fail"
           /\ requests = cfg.llm_retries + 1
           /\ Len(slept) = cfg.llm_retries

C9_Witness ==
    /\ raised = "TransportError"
    /\ cfg.llm_retries = 3
    /\ requests = 4
    /\ slept = <<1, 2, 4>>

\* C10: when the last request the transport may send fails, the run ends at
\* once with that error: no parse attempt, no theme change, no generate call
\* and no later question follows, in the first call of a question as in a
\* retry call, and nothing happens after the run has ended.
C10_TransportErrorPropagates ==
    [][/\ (pc = "post" /\ last_resp' = "fail"
              /\ requests' = cfg.llm_retries + 1) =>
           /\ pc' = "exit"
           /\ exit_status' = Some(1)
           /\ raised' = "TransportError"
           /\ UNCHANGED <<themes_used, gen_calls, parses, parse_failures>>
       /\ pc # "exit"]_vars

C10_Witness ==
    /\ pc = "exit"
    /\ raised = "TransportError"
    /\ parse_failures = 1
    /\ parses = 1
    /\ gen_calls = 2
    /\ Len(themes_used) = 2

\* ======================================================= functions alone
\* the variables of a generation run, untouched while one function is checked
runVars == <<cfg, env, progVars, reqHist, qHist, runHist>>

IdleCfg ==
    [count |-> 1, max_retries |-> 0, llm_retries |-> 0, no_rag |-> TRUE,
     include_tags |-> {}]

IdleEnv == [readable |-> FALSE, rows |-> {}, store_present |-> FALSE]

\* no generation run is under way
InitAlone ==
    /\ cfg = IdleCfg
    /\ env = IdleEnv
    /\ InitProg

\* ------------------------------------------------ constructing the client
IsDigit(c) == c \in {"0", "1", "2", "3", "4", "5", "6", "7", "8", "9"}

DigitValue(c) ==
    CASE c = "0" -> 0 [] c = "1" -> 1 [] c = "2" -> 2 [] c = "3" -> 3
      [] c = "4" -> 4 [] c = "5" -> 5 [] c = "6" -> 6 [] c = "7" -> 7
      [] c = "8" -> 8 [] OTHER -> 9

RECURSIVE DigitsValue(_, _)
DigitsValue(s, acc) ==
    IF s = <<>> THEN acc ELSE DigitsValue(Tail(s), 10 * acc + DigitValue(Head(s)))

\* int(text): surrounding whitespace and one sign allowed, then digits only;
\* None stands for the ValueError
ParseInt(s) ==
    LET t == Strip(s)
        signed == t # <<>> /\ Head(t) \in {"+", "-"}
        digits == IF signed THEN Tail(t) ELSE t
    IN IF digits = <<>> \/ \E i \in DOMAIN digits : ~IsDigit(digits[i])
       THEN None
       ELSE Some((IF signed /\ Head(t) = "-" THEN -1 ELSE 1) * DigitsValue(digits, 0))

\* the truth value of an Optional[str]
Truthy(opt) == opt # None /\ opt[1] # <<>>

\* variant of ResolveUrl that falls back to a built-in endpoint
ResolveUrlDefaulted(base_url, env_url) ==
    IF Truthy(base_url) THEN base_url
    ELSE IF Truthy(env_url) THEN env_url ELSE Some(<<"d">>)

\* llm_client.py:63 -- base_url or os.environ.get("OLLAMA_URL")
ResolveUrl(base_url, env_url) ==
    IF Truthy(base_url) THEN base_url ELSE env_url

\* llm_client.py:59-76 -- LLMClient.__init__ up to the resolved endpoint and
\* timeout, or the ValueError it raises
NewClient(base_url, http_timeout, env_url, env_timeout) ==
    LET url == ResolveUrl(base_url, env_url)
        failed == [ok |-> FALSE, url |-> <<>>, timeout |-> 0]
    IN IF ~Truthy(url) THEN failed
       ELSE IF http_timeout # None
            THEN [ok |-> TRUE, url |-> url[1], timeout |-> http_timeout[1]]
       ELSE IF env_timeout = None THEN failed
       ELSE IF ParseInt(env_timeout[1]) = None THEN failed
       ELSE [ok |-> TRUE, url |-> url[1], timeout |-> ParseInt(env_timeout[1])[1]]

UrlArgs == {None, Some(<<>>), Some(<<"u">>)}
UrlEnvs == {None, Some(<<>>), Some(<<"e">>)}
TimeoutArgs == {None, Some(0), Some(30)}
TimeoutEnvs ==
    {None, Some(<<>>), Some(<<"x">>), Some(<<"3", "0">>), Some(<<" ", "7">>)}

\* who builds a client, with which arguments, in which environment: the
\* generator passes --ollama-url / --http-timeout, the validator reads the
\* environment only
ClientCalls ==
    [caller : {"providers"}, base_url : UrlArgs, http_timeout : TimeoutArgs,
     env_url : UrlEnvs, env_timeout : TimeoutEnvs]
    \cup
    [caller : {"validator"}, base_url : {None}, http_timeout : {None},
     env_url : UrlEnvs, env_timeout : TimeoutEnvs]

InitClient ==
    /\ InitAlone
    /\ NoFiles
    /\ call \in ClientCalls
    /\ result = None
    /\ trace = <<>>
    /\ pc = "client"

\* the process ends with a status before any request
ClientFails(error) ==
    /\ pc' = "exit"
    /\ exit_status' = Some(1)
    /\ raised' = error
    /\ UNCHANGED result

\* providers.py:31-43, generate_quiz.py:35,63-65 -- Quiz(cfg) builds the
\* client from the arguments; a ValueError ends main with status 1
ProvidersInit ==
    /\ pc = "client"
    /\ call.caller = "providers"
    /\ LET c == NewClient(call.base_url, call.http_timeout, call.env_url,
                          call.env_timeout)
       IN IF c.ok
          THEN /\ result' = Some([url |-> c.url, timeout |-> c.timeout])
               /\ pc' = "ready"
               /\ UNCHANGED <<exit_status, raised>>
          ELSE ClientFails("ValueError")
    /\ UNCHANGED <<runVars, files, call, trace>>

\* validate_quiz_answers.py:138-149 -- auto_validate reads the environment,
\* returns 1 when a value is missing, else converts the timeout and builds
\* the client
ValidatorInit ==
    /\ pc = "client"
    /\ call.caller = "validator"
    /\ IF ~Truthy(call.env_url) \/ ~Truthy(call.env_timeout)
       THEN ClientFails("")
       ELSE IF ParseInt(call.env_timeout[1]) = None
       THEN ClientFails("ValueError")
       ELSE LET c == NewClient(call.env_url, ParseInt(call.env_timeout[1]),
                               call.env_url, call.env_timeout)
            IN IF c.ok
               THEN /\ result' = Some([url |-> c.url, timeout |-> c.timeout])
                    /\ pc' = "ready"
                    /\ UNCHANGED <<exit_status, raised>>
               ELSE ClientFails("ValueError")
    /\ UNCHANGED <<runVars, files, call, trace>>

\* llm_client.py:172 -- a request goes to the client's endpoint with its timeout
ClientPost ==
    /\ pc = "ready"
    /\ requests' = requests + 1
    /\ trace' = Append(trace, result[1])
    /\ pc' = "posted"
    /\ UNCHANGED <<cfg, env, progVars, slept, last_resp, qHist, runHist, files,
                   exit_status, raised, call, result>>

NextClient ==
    \/ ProvidersInit
    \/ ValidatorInit
    \/ ClientPost

SpecClient == InitClient /\ [][NextClient]_vars

\* C11: when the endpoint is absent from both the constructor argument and
\* the environment, or the timeout is absent from both or the environment
\* value is no integer, no client exists and no request is sent, and the
\* process ends with status 1; a client that exists holds an endpoint and a
\* timeout that were supplied, never a default; the validator ends with
\* status 1 and no request when either environment value is missing.
C11_ConfigRequired ==
    LET noUrl == call.base_url = None /\ call.env_url = None
        noTimeout == /\ call.http_timeout = None
                     /\ (call.env_timeout = None
                         \/ ParseInt(call.env_timeout[1]) = None)
        noEnv == /\ call.caller = "validator"
                 /\ (call.env_url = None \/ call.env_timeout = None)
    IN /\ (noUrl \/ noTimeout \/ noEnv) =>
              /\ result = None
              /\ requests = 0
              /\ pc \in {"client", "exit"}
              /\ pc = "exit" => exit_status = Some(1)
       /\ result # None =>
              /\ Some(result[1].url) \in {call.base_url, call.env_url}
              /\ \/ Some(result[1].timeout) = call.http_timeout
                 \/ /\ call.env_timeout # None
                    /\ ParseInt(call.env_timeout[1]) = Some(result[1].timeout)
       /\ requests > 0 => (result # None /\ trace = <<result[1]>>)

C11_Witness ==
    /\ pc = "exit"
    /\ call.caller = "providers"
    /\ call.base_url = None
    /\ call.env_url = None
    /\ call.http_timeout = Some(30)
    /\ raised = "ValueError"
    /\ requests = 0

\* ------------------------------------------------------- the parser alone
\* answers and option values a model may give
ParseAnswers ==
    { <<"3", "0">>, <<" ", "3", "0", " ">>, <<"C">>, <<"c", ")">>,
      <<"C", ")", " ", "3", "0">>, <<"5", "0">>, <<>>, <<"a">>, <<"D">>,
      <<"B", "-", "x">> }

OptsLowerLabels ==
    << <<"a", ".", " ", "1", "0">>, <<"b", ":", "2", "0">>,
       <<"c", " ", "-", " ", "3", "0">>, <<"d", "-", "4", "0">> >>
Opts5 == Opts4 \o << <<"5", "0">> >>
OptsWithEmpty == << <<"1", "0">>, <<>>, <<"3", "0">>, <<"4", "0">> >>
OptsLabelOnly == << <<"A", ")">>, <<"2", "0">>, <<"3", "0">>, <<"4", "0">> >>
OptsLetters == << <<"b">>, <<"a">>, <<"d">>, <<"c">> >>
OptsLabelTwice ==
    << <<"A", ")", " ", "B", "-", "x">>, <<"2", "0">>, <<"3", "0">>, <<"4", "0">> >>

OptionForms ==
    { ListOptions(Opts4), ListOptions(Opts4Labelled), ListOptions(OptsLowerLabels),
      ListOptions(Opts3), ListOptions(Opts5), ListOptions(OptsWithEmpty),
      ListOptions(OptsLabelOnly), ListOptions(OptsLetters),
      ListOptions(OptsLabelTwice),
      DictOptions([i \in 1..4 |-> Some(Opts4Labelled[i])]),
      DictOptions(<<Some(<<"1", "0">>), Some(<<"2", "0">>), Some(<<"3", "0">>), None>>),
      DictOptions(<<Some(<<"1", "0">>), Some(<<" ">>), Some(<<"3", "0">>),
                    Some(<<"4", "0">>)>>),
      OtherOptions }

ParseItems == [question : {QText}, options : OptionForms, answer : ParseAnswers]

\* one object per item, lists of two items with and without a fence, an empty
\* list, and text that holds no JSON
ParseInputs ==
    { [kind |-> "object", fenced |-> FALSE, items |-> <<it>>] : it \in ParseItems }
    \cup
    { [kind |-> "list", fenced |-> f, items |-> its] :
        f \in BOOLEAN, its \in { <<GoodItem, LetterItem>>, <<GoodItem, NoMatchItem>>,
                                <<>> } }
    \cup
    { [kind |-> "text", fenced |-> FALSE, items |-> <<>>] }

InitParse ==
    /\ InitAlone
    /\ NoFiles
    /\ call \in ParseInputs
    /\ result = <<>>
    /\ trace = <<>>
    /\ pc = "parser"

\* utils.py:71-245 -- _parse_model_questions(raw_json, 'ollama')
ParseCall ==
    /\ pc = "parser"
    /\ result' = ParseModelQuestions(call)
    /\ pc' = "parsed"
    /\ UNCHANGED <<runVars, files, exit_status, raised, call, trace>>

\* questions.py:24-37 -- the Questions written out as a JSON list of objects,
\* no fence around it
SerializeClean(qs) ==
    [kind |-> "list", fenced |-> FALSE,
     items |-> [i \in 1..Len(qs) |->
                   [id |-> qs[i].id, question |-> qs[i].question,
                    options |-> ListOptions(qs[i].options),
                    answer |-> qs[i].answer]]]

\* utils.py:71-245 -- the parser run again on what it accepted
ReparseCall ==
    /\ pc = "parsed"
    /\ result.ok
    /\ trace' = <<ParseModelQuestions(SerializeClean(result.questions))>>
    /\ pc' = "reparsed"
    /\ UNCHANGED <<runVars, files, exit_status, raised, call, result>>

NextParse ==
    \/ ParseCall
    \/ ReparseCall

SpecParse == InitParse /\ [][NextParse]_vars

\* the first index of a non-empty set of indices
FirstOf(S) == CHOOSE i \in S : \A j \in S : i <= j

\* C12: for one item whose options are non-empty texts, the stored answer is
\* decided by the first of these that applies: the trimmed answer equals an
\* option without case; the answer without its leading label equals an
\* option without case; the answer is a bare letter A-D, with or without
\* label punctuation, and the option at that position is stored as text.
\* When none applies the parse fails.
C12_ReconciliationOrder ==
    (/\ pc \in {"parsed", "reparsed"}
     /\ call.kind = "object"
     /\ FormatOptions(call.items[1].options) # None
     /\ \A j \in DOMAIN FormatOptions(call.items[1].options)[1] :
            FormatOptions(call.items[1].options)[1][j] # <<>>) =>
        LET opts == FormatOptions(call.items[1].options)[1]
            a == Strip(call.items[1].answer)
            eq(t) == {i \in DOMAIN opts : Lower(t) = Lower(Strip(opts[i]))}
            bare == CleanOptionText(a)
            letter == /\ a # <<>>
                      /\ a[1] \in {"A", "B", "C", "D", "a", "b", "c", "d"}
                      /\ \/ Len(a) = 1
                         \/ /\ a[Len(a)] \in {")", ".", ":", "-"}
                            /\ \A k \in 2..(Len(a) - 1) : IsSpace(a[k])
            pos == CHOOSE k \in 1..4 : LetterOf(k) = <<UpperChar(a[1])>>
            stored == result.questions[1].answer
        IN IF a = <<>> THEN ~result.ok
           ELSE IF eq(a) # {}
                THEN result.ok /\ FirstOf(eq(a)) \in eq(stored)
           ELSE IF eq(bare) # {}
                THEN result.ok /\ stored = opts[FirstOf(eq(bare))]
           ELSE IF letter /\ pos <= Len(opts)
                THEN result.ok /\ stored = opts[pos]
           ELSE ~result.ok

C12_Witness ==
    /\ pc = "parsed"
    /\ call.kind = "object"
    /\ call.items[1].answer = <<"C">>
    /\ call.items[1].options = ListOptions(Opts4)
    /\ result.ok
    /\ result.questions[1].answer = <<"3", "0">>

\* C14: every Question the parser returns has exactly four options, none of
\* them empty; an output whose options are anything else fails the parse.
C14_FourNonEmptyOptions ==
    (pc \in {"parsed", "reparsed"} /\ result.ok) =>
        \A i \in DOMAIN result.questions :
            /\ Len(result.questions[i].options) = 4
            /\ \A j \in DOMAIN result.questions[i].options :
                   result.questions[i].options[j] # <<>>

\* C15: parsing the clean, unfenced JSON list of the Questions the parser
\* returned succeeds and gives the same Questions: as many of them, with the
\* same option and answer texts.
C15_ParserIdempotent ==
    pc = "reparsed" => (trace[1].ok /\ trace[1].questions = result.questions)

\* C16: every stored option is the given text, trimmed, without its leading
\* label (a letter A-D in either case, optional whitespace, one of ) . : -,
\* optional whitespace); when nothing would be left the trimmed text is kept.
C16_OptionLabelsStripped ==
    (pc \in {"parsed", "reparsed"} /\ call.kind = "object" /\ result.ok) =>
        LET given == call.items[1].options
            text(i) == IF given.kind = "dict" THEN given.vals[i][1] ELSE given.vals[i]
            labelEnd(t) ==
                IF t # <<>> /\ t[1] \in {"A", "B", "C", "D", "a", "b", "c", "d"}
                   /\ \E k \in 2..Len(t) :
                          t[k] \in {")", ".", ":", "-"}
                          /\ \A j \in 2..(k - 1) : IsSpace(t[j])
                THEN CHOOSE k \in 2..Len(t) :
                          t[k] \in {")", ".", ":", "-"}
                          /\ \A j \in 2..(k - 1) : IsSpace(t[j])
                ELSE 0
            expected(t) ==
                LET k == labelEnd(t)
                    rest == Strip(SubSeq(t, k + 1, Len(t)))
                IN IF k = 0 \/ rest = <<>> THEN t ELSE rest
            stored == result.questions[1].options
        IN /\ Len(stored) = Len(given.vals)
           /\ \A i \in DOMAIN stored : stored[i] = expected(Strip(text(i)))

C16_Witness ==
    /\ pc = "parsed"
    /\ call.kind = "object"
    /\ call.items[1].options = ListOptions(Opts4Labelled)
    /\ result.ok
    /\ result.questions[1].options[2] = <<"2", "0">>

\* -------------------------------------------- cutting the JSON out of text
\* s0.find(ch), counted from 1; 0 when ch does not occur
FindChar(s, ch) ==
    IF \E i \in DOMAIN s : s[i] = ch
    THEN CHOOSE i \in DOMAIN s : s[i] = ch /\ \A j \in 1..(i - 1) : s[j] # ch
    ELSE 0

\* utils.py:108-129 -- the loop of _balanced_slice from index i on: the index
\* at which the depth returns to 0, or 0 when the text ends first
RECURSIVE BalancedEnd(_, _, _, _, _, _, _)
BalancedEnd(s, i, depth, in_str, esc, open_char, close_char) ==
    IF i > Len(s) THEN 0
    ELSE LET ch == s[i]
         IN IF in_str
            THEN IF esc
                 THEN BalancedEnd(s, i + 1, depth, TRUE, FALSE, open_char, close_char)
                 ELSE IF ch = "\\"
                 THEN BalancedEnd(s, i + 1, depth, TRUE, TRUE, open_char, close_char)
                 ELSE IF ch = "\""
                 THEN BalancedEnd(s, i + 1, depth, FALSE, FALSE, open_char, close_char)
                 ELSE BalancedEnd(s, i + 1, depth, TRUE, FALSE, open_char, close_char)
            ELSE IF ch = "\""
                 THEN BalancedEnd(s, i + 1, depth, TRUE, esc, open_char, close_char)
                 ELSE IF ch = open_char
                 THEN BalancedEnd(s, i + 1, depth + 1, FALSE, esc, open_char, close_char)
                 ELSE IF ch = close_char
                 THEN IF depth - 1 = 0 THEN i
                      ELSE BalancedEnd(s, i + 1, depth - 1, FALSE, esc, open_char,
                                       close_char)
                 ELSE BalancedEnd(s, i + 1, depth, FALSE, esc, open_char, close_char)

\* the balanced slice that starts at index start, None when there is none
BalancedFrom(s, start, open_char, close_char) ==
    IF start = 0 THEN None
    ELSE LET e == BalancedEnd(s, start, 0, FALSE, FALSE, open_char, close_char)
         IN IF e = 0 THEN None ELSE Some(Strip(SubSeq(s, start, e)))

\* utils.py:104-129 -- _balanced_slice: the scan starts at the first
\* occurrence of open_char and nowhere else
BalancedSlice(s, open_char, close_char) ==
    BalancedFrom(s, FindChar(s, open_char), open_char, close_char)

\* utils.py:83-85,100-134 -- the text handed to json.loads when there is no
\* fence: the object slice, else the array slice, else the whole text; None
\* for the "empty response" error
ExtractJson(raw_json) ==
    LET text == Strip(raw_json)
        candidate_obj == BalancedSlice(text, "{", "}")
        candidate_arr == BalancedSlice(text, "[", "]")
    IN IF text = <<>> THEN None
       ELSE IF candidate_obj # None THEN candidate_obj
       ELSE IF candidate_arr # None THEN candidate_arr
       ELSE Some(text)

\* the characters that matter to the scan, and one that does not; no backtick,
\* so no text holds a fence
TextChars == {"{", "}", "[", "]", "\"", "\\", "x"}

Texts == UNION {[1..n -> TextChars] : n \in 0..MaxTextLen}

InitExtract ==
    /\ InitAlone
    /\ NoFiles
    /\ call \in Texts
    /\ result = None
    /\ trace = <<>>
    /\ pc = "extract"

\* utils.py:83-134 -- the start of _parse_model_questions on unfenced text
ExtractCall ==
    /\ pc = "extract"
    /\ LET e == ExtractJson(call)
       IN IF e = None
          THEN /\ raised' = "ParseError"
               /\ UNCHANGED result
          ELSE /\ result' = e
               /\ UNCHANGED raised
    /\ pc' = "extracted"
    /\ UNCHANGED <<runVars, files, exit_status, call, trace>>

NextExtract == ExtractCall

SpecExtract == InitExtract /\ [][NextExtract]_vars

\* C13: from text without a fence the parser takes the first balanced {...}
\* object of the text (depth counted outside string literals), a balanced
\* [...] array only when the text holds no balanced object, and the whole
\* text only when it holds neither.
C13_FirstBalancedObject ==
    (pc = "extracted" /\ call # <<>>) =>
        LET objs == {i \in DOMAIN call :
                        call[i] = "{" /\ BalancedFrom(call, i, "{", "}") # None}
            arrs == {i \in DOMAIN call :
                        call[i] = "[" /\ BalancedFrom(call, i, "[", "]") # None}
        IN result = IF objs # {} THEN BalancedFrom(call, FirstOf(objs), "{", "}")
                    ELSE IF arrs # {} THEN BalancedFrom(call, FirstOf(arrs), "[", "]")
                    ELSE Some(call)

\* ------------------------------------------------ writing the output files
\* quiz_core.py:100-105 -- the id run() gives to question number idx
QuestionId(i) == <<"Q", i + 1>>

\* questions.py:24-31 -- public_dict
PublicDict(q) == [id |-> q.id, question |-> q.question, options |-> q.options]

\* questions.py:33-37 -- answer_dict
AnswerDict(q) == [answer |-> q.answer]

\* utils.py:27 -- the list written to the quiz file
QuizJson(qs) == [i \in 1..Len(qs) |-> PublicDict(qs[i])]

\* utils.py:29-41 -- the answer key: one entry per id, a later question with
\* the same id replaces an earlier one
KeyJson(qs) ==
    [id \in {qs[i].id : i \in 1..Len(qs)} |->
        LET at == {i \in 1..Len(qs) : qs[i].id = id}
            last == CHOOSE i \in at : \A j \in at : j <= i
        IN AnswerDict(qs[last])]

\* the Questions of a run: ids Q1..Qn, each text one of two
RunQuestions(texts) ==
    [i \in 1..Len(texts) |->
        [id |-> QuestionId(i - 1), question |-> texts[i], options |-> Opts4,
         answer |-> Opts4[3]]]

WriteTexts == UNION {[1..n -> {<<"q">>, <<"r">>}] : n \in 0..MaxCount}

\* what an earlier run left behind: nothing, or its pair of files
EarlierTexts == {<<>>, << <<"o">> >>, << <<"o">>, <<"p">>, <<"o">> >>}

InitWrite ==
    /\ InitAlone
    /\ \E old \in EarlierTexts :
          /\ quiz_file = IF old = <<>> THEN None ELSE Some(QuizJson(RunQuestions(old)))
          /\ answers_file = IF old = <<>> THEN None ELSE Some(KeyJson(RunQuestions(old)))
    /\ history_file = <<>>
    /\ torn = {}
    /\ call \in {RunQuestions(t) : t \in WriteTexts}
    /\ result = <<>>
    /\ trace = <<[quiz |-> quiz_file, answers |-> answers_file]>>
    /\ pc = "write_quiz"

\* utils.py:28 -- quiz_path.write_text(...) runs to its end
WriteQuiz ==
    /\ pc = "write_quiz"
    /\ quiz_file' = Some(QuizJson(call))
    /\ torn' = torn \ {"quiz"}
    /\ pc' = "write_key"
    /\ UNCHANGED <<runVars, answers_file, history_file, exit_status, raised, callVars>>

\* utils.py:42 -- answers_path.write_text(...) runs to its end
WriteAnswers ==
    /\ pc = "write_key"
    /\ answers_file' = Some(KeyJson(call))
    /\ torn' = torn \ {"answers"}
    /\ pc' = "written"
    /\ UNCHANGED <<runVars, quiz_file, history_file, exit_status, raised, callVars>>

\* generate_quiz.py:60-65 -- what main returns for an exception
StatusOf(error) == IF error = "KeyboardInterrupt" THEN 130 ELSE 1

\* utils.py:28 -- write_text of the quiz file does not finish: the file
\* cannot be opened (nothing changes), or the text is cut short after the
\* file was opened for writing
WriteQuizBroken ==
    /\ pc = "write_quiz"
    /\ \E error \in {"OSError", "KeyboardInterrupt"}, opened \in BOOLEAN :
          /\ IF opened
             THEN /\ quiz_file' = Some(QuizJson(call))
                  /\ torn' = torn \cup {"quiz"}
             ELSE UNCHANGED <<quiz_file, torn>>
          /\ raised' = error
          /\ exit_status' = Some(StatusOf(error))
    /\ pc' = "exit"
    /\ UNCHANGED <<runVars, answers_file, history_file, callVars>>

\* utils.py:29-42 -- the same between the two writes or in the second one
WriteAnswersBroken ==
    /\ pc = "write_key"
    /\ \E error \in {"OSError", "KeyboardInterrupt"}, opened \in BOOLEAN :
          /\ IF opened
             THEN /\ answers_file' = Some(KeyJson(call))
                  /\ torn' = torn \cup {"answers"}
             ELSE UNCHANGED <<answers_file, torn>>
          /\ raised' = error
          /\ exit_status' = Some(StatusOf(error))
    /\ pc' = "exit"
    /\ UNCHANGED <<runVars, quiz_file, history_file, callVars>>

NextWrite ==
    \/ WriteQuiz
    \/ WriteAnswers
    \/ WriteQuizBroken
    \/ WriteAnswersBroken

SpecWrite == InitWrite /\ [][NextWrite]_vars

\* C17: after write_outputs, and after any failure or interrupt during it,
\* either the quiz file and the answer key both hold the questions of this
\* run, with the same ids, or both are as they were before the call; neither
\* ever holds part of a JSON text.
C17_OutputsWrittenAsPair ==
    pc \in {"written", "exit"} =>
        /\ torn = {}
        /\ \/ /\ quiz_file = Some(QuizJson(call))
              /\ answers_file = Some(KeyJson(call))
              /\ {quiz_file[1][i].id : i \in 1..Len(quiz_file[1])} = DOMAIN answers_file[1]
           \/ /\ quiz_file = trace[1].quiz
              /\ answers_file = trace[1].answers

\* ------------------------------------------------------- the history file
\* re.sub(r'\s+', ' ', s): every run of whitespace becomes one blank
RECURSIVE CollapseSpaces(_)
CollapseSpaces(s) ==
    IF s = <<>> THEN <<>>
    ELSE IF IsSpace(Head(s))
    THEN <<" ">> \o CollapseSpaces(LStrip(s))
    ELSE <<Head(s)>> \o CollapseSpaces(Tail(s))

\* questions.py:56 -- the text as it is kept in the history
NormalizeText(s) == Strip(CollapseSpaces(Lower(s)))

\* the same slice taken from the wrong end
LastNFromFront(s, n) == Take(s, n)

\* lst[-n:] -- the last n entries; with n = 0 Python returns the whole list
LastN(s, n) ==
    IF n = 0 \/ Len(s) <= n THEN s ELSE SubSeq(s, Len(s) - n + 1, Len(s))

\* questions.py:53-66 -- the file after save_history(questions, keep_last)
\* on a file holding existing
SavedHistory(existing, qs, keep_last) ==
    LastN(existing \o [i \in 1..Len(qs) |-> NormalizeText(qs[i].question)], keep_last)

\* question texts as the model words them: capitals, runs of blanks, a
\* newline at the end
RawTexts == {<<"A", " ", " ", "b">>, <<" ", "B", "\t", "\n">>}

SaveTexts == UNION {[1..n -> RawTexts] : n \in 0..MaxCount}

\* entry number i of a history written by earlier runs
EarlierEntry(i) == IF i % 2 = 1 THEN <<"o">> ELSE <<"p", " ", "o">>

\* the file before the calls: missing, one short of the cap, or full
InitHistory ==
    /\ InitAlone
    /\ quiz_file = None
    /\ answers_file = None
    /\ torn = {}
    /\ \E n \in {0, KeepLast - 1, KeepLast} :
          history_file = [i \in 1..n |-> EarlierEntry(i)]
    /\ call = <<>>
    /\ result = <<>>
    /\ trace = history_file
    /\ pc = "history"

\* questions.py:53-66 -- save_history(questions) with the default keep_last;
\* call lists the calls made, trace everything appended so far
SaveHistory ==
    /\ pc = "history"
    /\ Len(call) < MaxSaves
    /\ \E texts \in SaveTexts :
          LET qs == RunQuestions(texts)
          IN /\ history_file' = SavedHistory(history_file, qs, KeepLast)
             /\ trace' = trace \o [i \in 1..Len(qs) |-> NormalizeText(qs[i].question)]
             /\ call' = Append(call, qs)
    /\ UNCHANGED <<runVars, quiz_file, answers_file, torn, pc, exit_status, raised,
                   result>>

\* questions.py:66-69 -- the file cannot be opened for writing: the exception
\* is swallowed, nothing is appended
SaveHistoryFails ==
    /\ pc = "history"
    /\ Len(call) < MaxSaves
    /\ \E texts \in SaveTexts : call' = Append(call, RunQuestions(texts))
    /\ UNCHANGED <<runVars, files, pc, exit_status, raised, result, trace>>

NextHistory ==
    \/ SaveHistory
    \/ SaveHistoryFails

SpecHistory == InitHistory /\ [][NextHistory]_vars

\* a text that is lower-cased, with single blanks only and none at its ends
IsNormalized(e) ==
    /\ \A i \in DOMAIN e : e[i] = LowerChar(e[i]) /\ e[i] \notin {"\n", "\t"}
    /\ \A i \in 1..(Len(e) - 1) : ~(e[i] = " " /\ e[i + 1] = " ")
    /\ e # <<>> => (e[1] # " " /\ e[Len(e)] # " ")

\* C18: after any sequence of save_history calls the history file holds at
\* most 100 entries, each a lower-cased, whitespace-collapsed question text,
\* and they are the most recent entries of everything appended, in the order
\* of appending.
C18_HistoryIsCappedSuffix ==
    LET kept == Len(history_file)
        all == Len(trace)
    IN /\ kept <= KeepLast
       /\ kept = IF all < KeepLast THEN all ELSE KeepLast
       /\ \A i \in 1..kept :
             /\ history_file[i] = trace[all - kept + i]
             /\ IsNormalized(history_file[i])

\* two calls appended past the cap: the oldest entries are gone and the
\* newest entry is a new text, normalised
C18_Witness ==
    /\ Len(call) = 2
    /\ Len(trace) > KeepLast + 1
    /\ history_file[KeepLast] \in {<<"a", " ", "b">>, <<"b">>}
    /\ history_file[1] # trace[1]

\* ------------------------------------------- the validator's retrieval
\* the snippets in the order first seen, none twice
RECURSIVE Uniq(_)
Uniq(s) ==
    IF s = <<>> THEN <<>>
    ELSE LET front == Uniq(SubSeq(s, 1, Len(s) - 1))
             last == s[Len(s)]
         IN IF last \in Range(front) THEN front ELSE Append(front, last)

\* rag.py:177-183 -- the header rendered with the query; empty when the
\* template cannot be read
HeaderLines(header, q) ==
    IF header = "missing" THEN <<>> ELSE << <<"#", " ">> \o q >>

\* rag.py:170-171 -- the first line of a block; source and heading come from
\* the document
BlockHead(snippet) == <<"[", "C", "1", "]", " ">> \o snippet

\* rag.py:136-191 -- get_blocks_for_query(query, k): the lines of the one
\* RAG_CONTEXT.md entry, None when nothing is retrieved.  store gives the
\* documents the retriever returns for a query text, best first; a query
\* whose embedding or retrieval fails has none.
GetBlocksForQuery(store, header, query, k) ==
    LET q == Strip(query)
        docs == IF q \in DOMAIN store THEN Take(store[q], k) ELSE <<>>
        snippets == Uniq([i \in 1..Len(docs) |-> Strip(Take(docs[i], SnippetLen))])
        BlockLines[i \in 0..Len(snippets)] ==
            IF i = 0 THEN <<>>
            ELSE BlockLines[i - 1] \o (IF i = 1 THEN <<>> ELSE << <<>> >>)
                 \o <<BlockHead(snippets[i]), snippets[i]>>
    IN IF q = <<>> \/ snippets = <<>> THEN None
       ELSE Some(HeaderLines(header, q) \o << <<>>, <<"-", "-", "-">>, <<>> >>
                 \o BlockLines[Len(snippets)])

\* validate_quiz_answers.py:202-212 -- the context kept of the entry: blank
\* lines go, and so does a first line that looks like a banner
ContextText(maybe) ==
    IF maybe = None THEN <<>>
    ELSE LET all == maybe[1]
             Kept[i \in 0..Len(all)] ==
                 IF i = 0 THEN <<>>
                 ELSE IF Strip(all[i]) = <<>> THEN Kept[i - 1]
                 ELSE Append(Kept[i - 1], all[i])
             lines == Kept[Len(all)]
         IN IF lines # <<>> /\ (\/ StartsWith(lines[1], <<"#">>)
                                \/ StartsWith(lines[1], <<"=", "=", "=">>)
                                \/ StartsWith(lines[1], <<"-", "-", "-">>))
            THEN Tail(lines) ELSE lines

\* a query that carries the answer along with the question
QueryWithAnswer(q, key_entry) == q.question \o <<" ">> \o key_entry.answer

\* validate_quiz_answers.py:199-201 -- the text handed to the retrieval
QueryOf(q, key_entry) == q.question

\* validate_quiz_answers.py:99-116 -- what _build_validation_prompt puts into
\* the template
BuildValidationPrompt(q, key_entry, rag_context) ==
    [question |-> Strip(q.question), options |-> q.options,
     provided_answer_text |-> Strip(key_entry.answer),
     explanation |-> Strip(key_entry.explanation), context |-> rag_context]

\* the model's judgement of what it is asked: "fails" stands for a request that
\* raises, TRUE and FALSE for the verdict read from the reply
Judgement(llm, asked) ==
    CASE llm = "agrees" -> "true"
      [] llm = "checks" -> IF asked.provided_answer_text = Opts4[3] THEN "true"
                           ELSE "false"
      [] OTHER -> "fails"

\* the quiz file: questions Q1..Qn, a text with blanks around it and a blank
\* text among them
QuizTexts == {<<"q">>, <<" ", "r", " ">>, <<" ">>}

Quizzes == UNION {[1..n -> QuizTexts] : n \in 1..MaxCount}

KeyEntry(answer, explanation) == [answer |-> answer, explanation |-> explanation]

\* the key entry of one question in the two inputs: missing in both, the
\* same, or differing in the answer, the explanation or both
KeyPairs ==
    {<<None, None>>,
     <<Some(KeyEntry(Opts4[3], <<"e">>)), Some(KeyEntry(Opts4[3], <<"e">>))>>,
     <<Some(KeyEntry(Opts4[3], <<"e">>)), Some(KeyEntry(Opts4[1], <<"e">>))>>,
     <<Some(KeyEntry(Opts4[3], <<"e">>)), Some(KeyEntry(Opts4[3], <<>>))>>,
     <<Some(KeyEntry(Opts4[1], <<>>)), Some(KeyEntry(Opts4[3], <<"f">>))>>}

\* document stores: empty, and one with a repeated document
DocStores ==
    {<<>> :> <<>>,
     (<<"q">> :> << <<"d">>, <<"d", " ">>, <<"#", "t">> >>)
        @@ (<<"r">> :> << <<"s">> >>)}

InitRetrieval ==
    /\ InitAlone
    /\ NoFiles
    /\ \E texts \in Quizzes, store \in DocStores, header \in {"missing", "title"},
          llm \in {"agrees", "checks", "down"} :
          \E pairs \in [1..Len(texts) -> KeyPairs] :
             call = [quiz |-> RunQuestions(texts),
                     key |-> [a |-> [i \in 1..Len(texts) |-> pairs[i][1]],
                              b |-> [i \in 1..Len(texts) |-> pairs[i][2]]],
                     store |-> store, header |-> header, llm |-> llm]
    /\ result = [run |-> "a", pos |-> 0, valid |-> [a |-> <<>>, b |-> <<>>]]
    /\ trace = [a |-> <<>>, b |-> <<>>]
    /\ pc = "validator"

\* validate_quiz_answers.py:181-286 -- one turn of the loop of auto_validate
\* in the run under way: the question is skipped without a key entry;
\* otherwise its context is retrieved, the prompt built, the model asked and
\* the question kept when the verdict is true.  trace lists the retrievals.
ValidateQuestion ==
    /\ pc = "validator"
    /\ result.pos < Len(call.quiz)
    /\ LET r == result.run
           q == call.quiz[result.pos + 1]
           entry == call.key[r][result.pos + 1]
       IN IF entry = None
          THEN /\ result' = [result EXCEPT !.pos = @ + 1]
               /\ UNCHANGED trace
          ELSE LET key_entry == entry[1]
                   provided_text == Strip(key_entry.answer)
                   query == QueryOf(q, key_entry)
                   context_text ==
                       ContextText(GetBlocksForQuery(call.store, call.header, query,
                                                     RagKDefault))
                   asked == BuildValidationPrompt(q, key_entry, context_text)
                   verdict == Judgement(call.llm, asked) = "true"
                   enriched == [id |-> q.id, question |-> q.question,
                                answer |-> provided_text]
               IN /\ trace' = [trace EXCEPT
                                  ![r] = Append(@, [id |-> q.id, query |-> query,
                                                    context |-> context_text])]
                  /\ result' = [result EXCEPT
                                   !.pos = @ + 1,
                                   !.valid[r] = IF verdict THEN Append(@, enriched)
                                                ELSE @]
    /\ UNCHANGED <<runVars, files, pc, exit_status, raised, call>>

\* the first input is done: the validator is run on the second
SecondRun ==
    /\ pc = "validator"
    /\ result.run = "a"
    /\ result.pos = Len(call.quiz)
    /\ result' = [result EXCEPT !.run = "b", !.pos = 0]
    /\ UNCHANGED <<runVars, files, pc, exit_status, raised, call, trace>>

\* validate_quiz_answers.py:288-297 -- the second run returns
ValidateReturn ==
    /\ pc = "validator"
    /\ result.run = "b"
    /\ result.pos = Len(call.quiz)
    /\ pc' = "validated"
    /\ exit_status' = Some(0)
    /\ UNCHANGED <<runVars, files, raised, callVars>>

NextRetrieval ==
    \/ ValidateQuestion
    \/ SecondRun
    \/ ValidateReturn

SpecRetrieval == InitRetrieval /\ [][NextRetrieval]_vars

\* C19: two validation inputs that differ only in answers and explanations
\* issue the same retrieval queries and obtain the same context, question by
\* question.
C19_RetrievalIgnoresAnswer ==
    /\ result.run = "b" =>
          /\ Len(trace.b) <= Len(trace.a)
          /\ \A i \in 1..Len(trace.b) : trace.b[i] = trace.a[i]
    /\ pc = "validated" => trace.a = trace.b

\* both runs are over, their keys differed and so did what they kept, and a
\* context was retrieved
C19_Witness ==
    /\ pc = "validated"
    /\ call.key.a # call.key.b
    /\ result.valid.a # result.valid.b
    /\ \E i \in 1..Len(trace.b) : trace.b[i].context # <<>>

\* ------------------------------------------------ the validator's verdict
TrueText == <<"t", "r", "u", "e">>
FalseText == <<"f", "a", "l", "s", "e">>
NullText == <<"n", "u", "l", "l">>

\* the characters of a JSON string between its quotes: no bare quote, no
\* control character, a backslash only in front of a character it may escape
RECURSIVE JsonStringBody(_)
JsonStringBody(s) ==
    IF s = <<>> THEN TRUE
    ELSE IF Head(s) \in {"\"", "\n", "\t"} THEN FALSE
    ELSE IF Head(s) = "\\"
    THEN /\ Len(s) >= 2
         /\ s[2] \in {"\"", "\\", "/", "b", "f", "n", "r", "t"}
         /\ JsonStringBody(Tail(Tail(s)))
    ELSE JsonStringBody(Tail(s))

\* a JSON number without fraction or exponent
JsonInteger(t) ==
    LET digits == IF t # <<>> /\ Head(t) = "-" THEN Tail(t) ELSE t
    IN /\ digits # <<>>
       /\ \A i \in DOMAIN digits : IsDigit(digits[i])
       /\ Len(digits) > 1 => Head(digits) # "0"

\* json.loads(text): Some(value) or None for the JSONDecodeError.  Of arrays
\* and objects the empty ones are read, which is all the replies hold.
JsonLoads(text) ==
    LET t == Strip(text)
    IN IF t = TrueText THEN Some([kind |-> "bool", val |-> TrueText])
       ELSE IF t = FalseText THEN Some([kind |-> "bool", val |-> FalseText])
       ELSE IF t = NullText THEN Some([kind |-> "null", val |-> <<>>])
       ELSE IF JsonInteger(t) THEN Some([kind |-> "number", val |-> t])
       ELSE IF Len(t) >= 2 /\ Head(t) = "\"" /\ t[Len(t)] = "\""
               /\ JsonStringBody(SubSeq(t, 2, Len(t) - 1))
       THEN Some([kind |-> "string", val |-> SubSeq(t, 2, Len(t) - 1)])
       ELSE IF t = <<"[", "]">> THEN Some([kind |-> "array", val |-> <<>>])
       ELSE IF t = <<"{", "}">> THEN Some([kind |-> "object", val |-> <<>>])
       ELSE None

\* bool(parsed)
JsonBool(v) ==
    CASE v.kind = "bool" -> v.val = TrueText
      [] v.kind = "number" -> \E i \in DOMAIN v.val : v.val[i] \notin {"-", "0"}
      [] OTHER -> v.val # <<>>

\* a reply from which no quotes are ever taken off
StripQuotesNever(s, quote) == s

\* validate_quiz_answers.py:223-226 -- s[1:-1].strip() when s starts and ends
\* with the quote, s otherwise
StripQuotes(s, quote) ==
    IF s # <<>> /\ Head(s) = quote /\ s[Len(s)] = quote
    THEN Strip(SubSeq(s, 2, Len(s) - 1))
    ELSE s

\* validate_quiz_answers.py:219-237 -- the verdict read from the reply
VerdictOf(json_reply) ==
    LET answer == Strip(json_reply)
        ans_norm == StripQuotes(StripQuotes(answer, "\""), "'")
        low == Lower(ans_norm)
        parsed == JsonLoads(answer)
    IN IF low \in {TrueText, FalseText} THEN low = TrueText
       ELSE IF parsed = None THEN FALSE
       ELSE JsonBool(parsed[1])

\* replies: a word, a number, a JSON value or nothing, inside up to MaxWrap
\* layers of double quotes, single quotes or blanks
ReplyCores ==
    {TrueText, <<"T", "r", "u", "e">>, FalseText, <<"F", "A", "L", "S", "E">>, NullText,
     <<"1">>, <<"0">>, <<"0", "1">>, <<"y", "e", "s">>, <<>>, <<"[", "]">>, <<"{", "}">>}

Wrapped(s, how) ==
    CASE how = "double" -> <<"\"">> \o s \o <<"\"">>
      [] how = "single" -> <<"'">> \o s \o <<"'">>
      [] OTHER -> <<" ">> \o s \o <<"\n">>

RECURSIVE Replies(_)
Replies(n) ==
    IF n = 0 THEN ReplyCores
    ELSE LET inner == Replies(n - 1)
         IN inner \cup {Wrapped(s, how) : s \in inner, how \in {"double", "single", "pad"}}

InitVerdict ==
    /\ InitAlone
    /\ NoFiles
    /\ call \in Replies(MaxWrap)
    /\ result = None
    /\ trace = <<>>
    /\ pc = "verdict"

\* validate_quiz_answers.py:218-237 -- the reply of the model is read
VerdictCall ==
    /\ pc = "verdict"
    /\ result' = Some(VerdictOf(call))
    /\ pc' = "judged"
    /\ UNCHANGED <<runVars, files, exit_status, raised, call, trace>>

NextVerdict == VerdictCall

SpecVerdict == InitVerdict /\ [][NextVerdict]_vars

\* the text inside a pair of the quote, trimmed; <<>> when s is not wrapped
Inside(s, quote) ==
    IF Len(s) >= 2 /\ Head(s) = quote /\ s[Len(s)] = quote
    THEN {Strip(SubSeq(s, 2, Len(s) - 1))}
    ELSE {}

\* the verdict a reply gets when the readings of it are the given texts
VerdictFrom(readings, reply) ==
    IF \E c \in readings : Lower(c) = TrueText THEN TRUE
    ELSE IF \E c \in readings : Lower(c) = FalseText THEN FALSE
    ELSE JsonLoads(reply) # None /\ JsonBool(JsonLoads(reply)[1])

\* C20 as stated: the verdict is true when the trimmed reply, bare or inside
\* one pair of quotes, is "true" in any case, false when it is "false",
\* otherwise the truth value of the reply parsed as JSON, false when it does
\* not parse.
C20_VerdictOnePairOfQuotes ==
    pc = "judged" =>
        LET t == Strip(call)
        IN result[1] = VerdictFrom({t} \cup Inside(t, "\"") \cup Inside(t, "'"), call)

\* C20 amended: the reply may also be a single-quoted word inside double
\* quotes -- up to one pair of double quotes and then one pair of single
\* quotes are taken off, trimming each time.
C20_Verdict ==
    pc = "judged" =>
        LET t == Strip(call)
            single == Inside(t, "'")
            double == Inside(t, "\"")
            both == UNION {Inside(d, "'") : d \in double}
        IN result[1] = VerdictFrom({t} \cup single \cup double \cup both, call)

\* a reply of "false" in single quotes inside double quotes was judged false,
\* although as JSON it is a string that is not empty
C20_Witness ==
    /\ pc = "judged"
    /\ call = <<"\"", "'">> \o FalseText \o <<"'", "\"">>
    /\ result = Some(FALSE)
    /\ JsonLoads(call) # None /\ JsonBool(JsonLoads(call)[1])

\* ------------------------------------------------- the validation batch
\* validate_quiz_answers.py:187-196 -- the warnings printed about a question
\* before anything is asked: no options, or an answer text that is not empty
\* and is none of the options (trimmed, whatever the case)
SanityWarnings(q, provided_text) ==
    IF q.options = <<>> THEN <<"no_options">>
    ELSE IF provided_text # <<>>
            /\ \A i \in DOMAIN q.options :
                  Lower(Strip(provided_text)) # Lower(Strip(q.options[i]))
    THEN <<"answer_not_an_option">>
    ELSE <<>>

\* validate_quiz_answers.py:258-268 -- the index of the first option equal to
\* the answer text, 0 for the code's -1
CorrectIdx(provided_text, options_list) ==
    LET hits == {i \in DOMAIN options_list :
                    Lower(Strip(provided_text)) = Lower(Strip(options_list[i]))}
    IN IF provided_text = <<>> \/ hits = {} THEN 0
       ELSE CHOOSE i \in hits : \A j \in hits : i <= j

\* validate_quiz_answers.py:270-274 -- the row of test_questions; uuid stands
\* for the fresh uuid4
ParentRow(uuid, q) ==
    [tbl |-> "test_questions", uuid |-> uuid, option |-> q.question, flag |-> 0]

\* validate_quiz_answers.py:276-281 -- the rows of test_answers, one per option
ChildRows(uuid, options_list, correct_idx) ==
    [i \in 1..Len(options_list) |->
        [tbl |-> "test_answers", uuid |-> uuid, option |-> options_list[i],
         flag |-> IF i = correct_idx THEN 1 ELSE 0]]

\* where an insert may break: not at all, at the parent row, at the second
\* child row, or at the commit
InsertFaults == {"none", "parent", "child", "commit"}

\* validate_quiz_answers.py:250-283 -- the rows the statements of one insert
\* leave in the open transaction
InsertedRows(uuid, q, provided_text, fault) ==
    LET options_list == q.options
        children == ChildRows(uuid, options_list, CorrectIdx(provided_text, options_list))
    IN CASE fault = "parent" -> <<>>
         [] fault = "child" -> <<ParentRow(uuid, q)>> \o Take(children, 1)
         [] OTHER -> <<ParentRow(uuid, q)>> \o children

\* the question joins the validated list only once its rows are stored
KeptAfterInsert(valid, id, verdict, fault) ==
    IF verdict /\ fault = "none" THEN Append(valid, id) ELSE valid

\* validate_quiz_answers.py:238-248 -- a question judged true joins the
\* validated list before any row is inserted
Kept(valid, id, verdict, fault) ==
    IF verdict THEN Append(valid, id) ELSE valid

BatchAnswers == {Opts4[3], <<"5", "0">>, <<>>}

BatchItems ==
    {[options |-> o, entry |-> e] :
        o \in {Opts4, <<>>},
        e \in {None} \cup {Some(KeyEntry(a, <<"e">>)) : a \in BatchAnswers}}

Batches == UNION {[1..n -> BatchItems] : n \in 1..MaxBatch}

InitValidate ==
    /\ InitAlone
    /\ NoFiles
    /\ \E items \in Batches, store_ok \in BOOLEAN, db \in BOOLEAN,
          retrieval \in {"found", "raises"} :
          call = [quiz |-> [i \in 1..Len(items) |->
                               [id |-> QuestionId(i - 1), question |-> QText,
                                options |-> items[i].options]],
                  key |-> [i \in 1..Len(items) |-> items[i].entry],
                  store_ok |-> store_ok, db |-> db, retrieval |-> retrieval]
    /\ result = [pos |-> 0, valid |-> <<>>, pending |-> <<>>, committed |-> <<>>,
                 out |-> None]
    /\ trace = <<>>
    /\ pc = "rag_init"

\* validate_quiz_answers.py:150-166 -- the retrieval is set up; without a
\* document store auto_validate returns 2
ValidateRagInit ==
    /\ pc = "rag_init"
    /\ IF call.store_ok
       THEN /\ pc' = "batch"
            /\ UNCHANGED exit_status
       ELSE /\ pc' = "exit"
            /\ exit_status' = Some(2)
    /\ UNCHANGED <<runVars, files, raised, callVars>>

\* validate_quiz_answers.py:181-286 -- one turn of the loop.  trace lists what
\* is printed and asked, in order; the model's verdict and the fate of the
\* insert are the environment's choice.
ValidateTurn ==
    /\ pc = "batch"
    /\ result.pos < Len(call.quiz)
    /\ LET n == result.pos + 1
           q == call.quiz[n]
           entry == call.key[n]
       IN IF entry = None
          THEN /\ result' = [result EXCEPT !.pos = n]
               /\ UNCHANGED trace
          ELSE \E said \in {"true", "false", "fails"}, fault \in InsertFaults :
               LET key_entry == entry[1]
                   provided_text == Strip(key_entry.answer)
                   warned == [i \in 1..Len(SanityWarnings(q, provided_text)) |->
                                 [ev |-> SanityWarnings(q, provided_text)[i], id |-> q.id]]
                   retrieved == IF call.retrieval = "raises"
                                THEN <<[ev |-> "retrieval_failed", id |-> q.id]>>
                                ELSE <<>>
                   asked == <<[ev |-> "call", id |-> q.id]>>
                   verdict == said = "true"
                   inserts == verdict /\ call.db
                   rows == InsertedRows(n, q, provided_text, fault)
               IN /\ (~inserts => fault = "none")
                  /\ (fault = "child" => Len(q.options) >= 2)
                  /\ trace' = trace \o warned \o retrieved \o asked
                        \o (IF said = "fails"
                            THEN <<[ev |-> "call_failed", id |-> q.id]>>
                            ELSE <<[ev |-> said, id |-> q.id]>>)
                        \o (IF inserts /\ fault # "none"
                            THEN <<[ev |-> "insert_failed", id |-> q.id]>> ELSE <<>>)
                  /\ result' =
                        [result EXCEPT
                            !.pos = n,
                            !.valid = Kept(@, q.id, verdict, fault),
                            !.pending = IF ~inserts THEN @
                                        ELSE IF fault # "none" THEN @ \o rows
                                        ELSE <<>>,
                            !.committed = IF inserts /\ fault = "none"
                                          THEN @ \o result.pending \o rows ELSE @]
    /\ UNCHANGED <<runVars, files, pc, exit_status, raised, call>>

\* validate_quiz_answers.py:287-304 -- the validated list is written and the
\* connection closed, which drops what was never committed
ValidateWrite ==
    /\ pc = "batch"
    /\ result.pos = Len(call.quiz)
    /\ \E written \in BOOLEAN :
          /\ result' = [result EXCEPT !.out = IF written THEN Some(result.valid) ELSE @,
                                      !.pending = <<>>]
          /\ exit_status' = Some(IF written THEN 0 ELSE 1)
    /\ pc' = "exit"
    /\ UNCHANGED <<runVars, files, raised, call, trace>>

NextValidate ==
    \/ ValidateRagInit
    \/ ValidateTurn
    \/ ValidateWrite

SpecValidate == InitValidate /\ [][NextValidate]_vars

\* the events of the trace about question id
EventsOf(id) == {i \in DOMAIN trace : trace[i].id = id}

Happened(ev, id) == \E i \in EventsOf(id) : trace[i].ev = ev

\* C21: a verdict call or an insert that fails for one question never stops
\* the batch: every question with a key entry is asked about, a question
\* judged true stays in the validated list when its insert fails, and the
\* run ends by writing the validated list.
C21_BatchSurvivesFailures ==
    (pc = "exit" /\ call.store_ok) =>
        /\ result.pos = Len(call.quiz)
        /\ \A n \in DOMAIN call.quiz :
              LET id == call.quiz[n].id
              IN /\ call.key[n] # None => Happened("call", id)
                 /\ Happened("insert_failed", id) => id \in Range(result.valid)
        /\ exit_status \in {Some(0), Some(1)}
        /\ exit_status = Some(0) => result.out = Some(result.valid)

\* the call for Q1 failed, the insert for Q2 failed, Q2 is in the list that
\* was written
C21_Witness ==
    /\ pc = "exit"
    /\ Len(call.quiz) = 2
    /\ Happened("call_failed", QuestionId(0))
    /\ Happened("insert_failed", QuestionId(1))
    /\ result.out = Some(<<QuestionId(1)>>)

\* C22: the committed rows are, for each persisted question, exactly one
\* parent row and exactly one child row per option of that question, also
\* after runs in which an insert failed partway.
C22_CommittedRowsComplete ==
    LET rows == result.committed
        Parents(u) == {i \in DOMAIN rows : rows[i].tbl = "test_questions" /\ rows[i].uuid = u}
        Children(u) == {i \in DOMAIN rows : rows[i].tbl = "test_answers" /\ rows[i].uuid = u}
    IN \A i \in DOMAIN rows :
          LET u == rows[i].uuid
          IN /\ Cardinality(Parents(u)) = 1
             /\ Cardinality(Children(u)) = Len(call.quiz[u].options)

\* ------------------------------- from the generator's answer to the rows
\* options of which two share their first five characters, and options of
\* which one starts with another
OptsSharedPrefix ==
    << <<"a", "b", "c", "d", "e", "x">>, <<"a", "b", "c", "d", "e", "y">>,
       <<"3", "0">>, <<"4", "0">> >>
OptsShortPrefix == << <<"a", "b", "c">>, <<"a", "b">>, <<"3", "0">>, <<"4", "0">> >>

PipelineOptions == {Opts4, OptsLetters, OptsSharedPrefix, OptsShortPrefix}

\* utils.py:196-224 -- a question as the parser returns it: the answer is the
\* text of one of its options
PipelineItems == {[options |-> o, designated |-> i] : o \in PipelineOptions, i \in 1..4}

InitPersist ==
    /\ InitAlone
    /\ NoFiles
    /\ \E n \in 1..MaxCount : \E items \in [1..n -> PipelineItems] :
          call = [questions |-> [i \in 1..n |->
                                    [id |-> QuestionId(i - 1), question |-> QText,
                                     options |-> items[i].options,
                                     answer |-> items[i].options[items[i].designated]]],
                  designated |-> [i \in 1..n |-> items[i].designated]]
    /\ result = [questions |-> <<>>, key |-> <<>>, pos |-> 0, committed |-> <<>>]
    /\ trace = <<>>
    /\ pc = "gen_validate"

\* generate_quiz.py:36-40 -- quiz.validate(questions, cfg.count) on the
\* questions of the run
PipelineValidate ==
    /\ pc = "gen_validate"
    /\ LET v == Validate(call.questions, Len(call.questions))
       IN /\ ~v.err
          /\ result' = [result EXCEPT !.questions = v.questions]
    /\ pc' = "gen_write"
    /\ UNCHANGED <<runVars, files, exit_status, raised, call, trace>>

\* generate_quiz.py:44-47,56 -- the answer key made of the questions'
\* answer_dict
PipelineWrite ==
    /\ pc = "gen_write"
    /\ result' = [result EXCEPT !.key = KeyJson(result.questions)]
    /\ pc' = "persist"
    /\ UNCHANGED <<runVars, files, exit_status, raised, call, trace>>

\* validate_quiz_answers.py:181-283 -- the validator's turn for the next
\* question, whose insert goes through when the verdict is true
PipelinePersist ==
    /\ pc = "persist"
    /\ result.pos < Len(result.questions)
    /\ \E verdict \in BOOLEAN :
          LET n == result.pos + 1
              q == result.questions[n]
              provided_text == Strip(result.key[q.id].answer)
          IN result' = [result EXCEPT
                           !.pos = n,
                           !.committed =
                               IF verdict
                               THEN @ \o InsertedRows(n, q, provided_text, "none")
                               ELSE @]
    /\ UNCHANGED <<runVars, files, pc, exit_status, raised, call, trace>>

\* validate_quiz_answers.py:287-297 -- the validator returns
PipelineDone ==
    /\ pc = "persist"
    /\ result.pos = Len(result.questions)
    /\ pc' = "persisted"
    /\ exit_status' = Some(0)
    /\ UNCHANGED <<runVars, files, raised, callVars>>

NextPersist ==
    \/ PipelineValidate
    \/ PipelineWrite
    \/ PipelinePersist
    \/ PipelineDone

SpecPersist == InitPersist /\ [][NextPersist]_vars

C30_ValidateKeepsDesignation ==
    pc # "gen_validate" =>
        \A n \in DOMAIN result.questions :
            \/ result.questions[n].answer = call.questions[n].answer
            \/ result.questions[n].answer = LetterOf(call.designated[n])

\* C24: for a question whose stored answer text is none of its own options
\* the sanity warning is printed before the validation call for it, the
\* call is still made, and the question is in the validated list exactly
\* when the verdict is true.
C24_WarningBeforeCall ==
    \A n \in 1..result.pos :
        LET q == call.quiz[n]
            entry == call.key[n]
        IN (/\ pc \in {"batch", "exit"}
            /\ entry # None
            /\ \A k \in DOMAIN q.options :
                  Lower(Strip(entry[1].answer)) # Lower(Strip(q.options[k]))) =>
               /\ \E i, j \in EventsOf(q.id) :
                     /\ i < j
                     /\ trace[i].ev \in {"answer_not_an_option", "no_options"}
                     /\ trace[j].ev = "call"
               /\ q.id \in Range(result.valid) <=> Happened("true", q.id)

\* C25: a retrieval failure never aborts a run or changes its exit status:
\* with the vector store absent the validation run still goes through its
\* questions without retrieved context and ends as it would otherwise.
C25_RetrievalFailSoft ==
    (pc = "exit" /\ ~call.store_ok) =>
        /\ result.pos = Len(call.quiz)
        /\ exit_status \in {Some(0), Some(1)}

\* ------------------------------------------- claims on the generation run
\* the theme a retry numbered n moves to
NextTheme(n) == themes[NextThemeIndex(0, n, themes) + 1]

C27_NoThemeWithoutRetrieval ==
    (pc \in {"post", "parse"} /\ (cfg.no_rag \/ ~document_store)) =>
        /\ themes = <<>>
        /\ prompt.theme = None
        /\ prompt.corpus = None

\* ------------------------------------------- the questions asked recently
\* questions.py:40-50 -- recent_history(avoid_recent_window) on a history
\* file holding loaded; a missing or unreadable file gives the empty list
RecentHistory(readable, loaded, avoid_recent_window) ==
    IF ~readable THEN <<>>
    ELSE LastN([i \in 1..Len(loaded) |-> NormalizeText(loaded[i])],
               avoid_recent_window)

\* providers.py:62-64 -- the questions named in the avoid-recent clause of
\* the prompt; no clause, and so none named, when recent_norm is empty
RecentClause(recent_norm, window) ==
    IF recent_norm = <<>> THEN <<>> ELSE LastN(recent_norm, window)

\* entries of a history file: as save_history writes them, and as written
\* by hand
HistoryEntries == {<<"o">>, <<"p", " ", "o">>, <<"A", " ", " ", "b">>}

HistoryFiles == UNION {[1..n -> HistoryEntries] : n \in 0..MaxHistory}

\* config.py:73 -- --avoid-recent-window is a required integer; the history
\* file is whatever earlier runs left
InitRecent ==
    /\ InitAlone
    /\ quiz_file = None
    /\ answers_file = None
    /\ torn = {}
    /\ history_file \in HistoryFiles
    /\ call \in [avoid_recent_window : 0..MaxWindow, readable : BOOLEAN]
    /\ result = [recent_norm |-> <<>>, listed |-> <<>>]
    /\ trace = <<>>
    /\ pc = "recent"

\* quiz_core.py:74 -- Quiz.run reads the recent questions once
ReadRecent ==
    /\ pc = "recent"
    /\ result' = [result EXCEPT !.recent_norm =
                     RecentHistory(call.readable, history_file,
                                   call.avoid_recent_window)]
    /\ pc' = "prompt"
    /\ UNCHANGED <<runVars, files, exit_status, raised, call, trace>>

\* providers.py:62-64 -- the prompt of a question is put together
BuildRecentClause ==
    /\ pc = "prompt"
    /\ result' = [result EXCEPT !.listed =
                     RecentClause(result.recent_norm, call.avoid_recent_window)]
    /\ pc' = "asked"
    /\ UNCHANGED <<runVars, files, exit_status, raised, call, trace>>

NextRecent ==
    \/ ReadRecent
    \/ BuildRecentClause

SpecRecent == InitRecent /\ [][NextRecent]_vars

\* C28: for every window >= 0 and every history file, recent_history returns
\* at most window entries, the most recent ones in order, and the prompt
\* names at most window prior questions; with window 0 it names none.
C28_RecentWithinWindow ==
    LET window == call.avoid_recent_window
        recent == result.recent_norm
        all == Len(history_file)
    IN /\ pc # "recent" =>
             /\ Len(recent) <= window
             /\ \A i \in 1..Len(recent) :
                   recent[i] = NormalizeText(history_file[all - Len(recent) + i])
       /\ pc = "asked" =>
             /\ Len(result.listed) <= window
             /\ window = 0 => result.listed = <<>>

\* ------------------------------------------- settings of the master script
\* values of a YAML mapping: a text, or nothing; Disabled is the object
\* master.py:20 keeps to mark a setting switched off
PyNone == [kind |-> "None", text |-> <<>>]
PyStr(s) == [kind |-> "str", text |-> s]
Disabled == [kind |-> "_DISABLED", text |-> <<>>]

NoneWord == <<"n", "o", "n", "e">>

\* master.py:80 -- _DUMP_KEYS
DumpKeys == {"dump_llm_payload", "dump_llm_response", "dump_ollama_prompt",
             "dump_rag_context"}

\* master.py:83-98 -- _norm_none(key, v)
NormNone(key, v) ==
    IF v.kind # "str" THEN v
    ELSE LET s == Lower(Strip(v.text))
         IN IF s \in {NullText, <<>>} THEN PyNone
            ELSE IF s = NoneWord /\ key \in DumpKeys THEN Disabled
            ELSE v

\* dict.get(key) on a mapping given as <<>> (not a mapping) or <<d>>
GetKey(mapping, key) == IF mapping = <<>> THEN PyNone ELSE mapping[1][key]

\* master.py:101-121 -- _fallback(section, root, key, default)
Fallback(section, root, key, default) ==
    LET sv == NormNone(key, GetKey(section, key))
        rv == NormNone(key, GetKey(root, key))
    IN IF sv = Disabled THEN PyNone
       ELSE IF sv # PyNone THEN sv
       ELSE IF rv # PyNone THEN rv
       ELSE default

\* bool(v) of a value
IsTruthy(v) == v.kind = "_DISABLED" \/ (v.kind = "str" /\ v.text # <<>>)

SettingKeys == {"dump_llm_payload", "model"}

SettingValues ==
    {PyNone, PyStr(<<>>), PyStr(<<"n", "u", "L", "L">>),
     PyStr(<<" ", "n", "o", "n", "E">>), PyStr(<<"p">>), PyStr(<<"d">>)}

Mappings == {<<>>} \cup {<<d>> : d \in [SettingKeys -> SettingValues]}

\* master.py:184-201 -- the section and the root of the configuration file,
\* the key looked up and the default given
InitFallback ==
    /\ InitAlone
    /\ NoFiles
    /\ call \in [section : Mappings, root : Mappings \ {<<>>},
                 key : SettingKeys, default : {PyNone, PyStr(<<"d">>)}]
    /\ result = [value |-> PyNone, exported |-> FALSE]
    /\ trace = <<>>
    /\ pc = "fallback"

\* master.py:101-121 -- the setting is looked up
FallbackCall ==
    /\ pc = "fallback"
    /\ result' = [result EXCEPT !.value =
                     Fallback(call.section, call.root, call.key, call.default)]
    /\ pc' = "env"
    /\ UNCHANGED <<runVars, files, exit_status, raised, call, trace>>

\* master.py:238-243 -- run_validate exports the setting to the validator
\* when it is truthy
ExportSetting ==
    /\ pc = "env"
    /\ result' = [result EXCEPT !.exported = IsTruthy(result.value)]
    /\ pc' = "exec"
    /\ UNCHANGED <<runVars, files, exit_status, raised, call, trace>>

NextFallback ==
    \/ FallbackCall
    \/ ExportSetting

SpecFallback == InitFallback /\ [][NextFallback]_vars

\* a value that counts as given: a text other than '', 'null'
IsSet(v) == v.kind = "str" /\ Lower(Strip(v.text)) \notin {<<>>, NullText}

\* the word 'none' under a dump key
IsNoneWord(key, v) ==
    key \in DumpKeys /\ v.kind = "str" /\ Lower(Strip(v.text)) = NoneWord

\* C29: _fallback returns the section's value if set, else the root's value,
\* else the default; for a dump key the word 'none' at section or root level
\* gives None, and the internal disabled marker is never returned.
C29_FallbackOrder ==
    LET key == call.key
        sv == GetKey(call.section, key)
        rv == GetKey(call.root, key)
    IN pc # "fallback" =>
          /\ result.value # Disabled
          /\ result.value =
                IF IsNoneWord(key, sv) THEN PyNone
                ELSE IF IsSet(sv) THEN sv
                ELSE IF IsNoneWord(key, rv) THEN PyNone
                ELSE IF IsSet(rv) THEN rv
                ELSE call.default

====
